---- MODULE Spec2Model ----
(***************************************************************************)
(* A model of doped/generation.py: the DefectsGenerator facade.            *)
(*                                                                         *)
(* Strings are sequences of one-character strings, so that the f-string    *)
(* formatting of charges, str.startswith / str.endswith / str.rsplit and   *)
(* int() are computed as Python computes them.  Python dicts are           *)
(* insertion-ordered: they are sequences of [key, val] records.            *)
(***************************************************************************)
EXTENDS Integers, Sequences, FiniteSets, TLC

\* ------------------------------------------------------------------ bounds
\* Largest |oxidation state| an enumerated defect can carry.
MaxOxi == 2
\* Largest number of defects the enumerators yield for one host (all kinds).
MaxDefects == 4
\* Largest number of interstitial sites of a host whose interstitials carry
\* different oxidation states.
MaxInterstitials == 2
\* Largest number of defects of a host that is later used as a mapping.
MaxMapDefects == 3
\* Number of mapping operations (assignment, deletion) applied after construction.
MaxOps == 2

MaxPoints == 5

\* ------------------------------------------------------------------ strings
Digits == <<"0", "1", "2", "3", "4", "5", "6", "7", "8", "9">>

Letters == <<"a", "b", "c", "d", "e", "f", "g", "h", "i", "j", "k", "l", "m",
             "n", "o", "p", "q", "r", "s", "t", "u", "v", "w", "x", "y", "z">>

\* str(n) for a natural number n < 100.
StrNat(n) ==
    IF n < 10 THEN <<Digits[n + 1]>>
    ELSE <<Digits[(n \div 10) + 1], Digits[(n % 10) + 1]>>

\* f"{charge}" for an int.
StrInt(c) == IF c < 0 THEN <<"-">> \o StrNat(0 - c) ELSE StrNat(c)

\* f"{'+' if charge > 0 else ''}{charge}"
FormatCharge(charge) == (IF charge > 0 THEN <<"+">> ELSE <<>>) \o StrInt(charge)

\* s.startswith(p)
StartsWith(s, p) == Len(s) >= Len(p) /\ SubSeq(s, 1, Len(p)) = p

\* s.endswith(c) for a one-character c
EndsWith(s, c) == Len(s) >= 1 /\ s[Len(s)] = c

\* Positions of "_" in s.
Underscores(s) == {i \in 1..Len(s) : s[i] = "_"}

LastUnderscore(s) == CHOOSE i \in Underscores(s) : \A j \in Underscores(s) : j <= i

\* s.rsplit("_", 1)[-1]
RSplitLast(s) ==
    IF Underscores(s) = {} THEN s ELSE SubSeq(s, LastUnderscore(s) + 1, Len(s))

\* s.rsplit("_", 1)[0]
RSplitFirst(s) ==
    IF Underscores(s) = {} THEN s ELSE SubSeq(s, 1, LastUnderscore(s) - 1)

DigitValue(c) == (CHOOSE i \in 1..10 : Digits[i] = c) - 1

RECURSIVE NatOfDigits(_)
NatOfDigits(s) ==
    IF s = <<>> THEN 0
    ELSE 10 * NatOfDigits(SubSeq(s, 1, Len(s) - 1)) + DigitValue(s[Len(s)])

\* int(s) for an optionally signed decimal string.
ParseInt(s) ==
    IF s[1] = "-" THEN 0 - NatOfDigits(Tail(s))
    ELSE IF s[1] = "+" THEN NatOfDigits(Tail(s))
    ELSE NatOfDigits(s)

\* ------------------------------------------------------------------ dicts
RECURSIVE KeyIndex(_, _)
\* Position of key k in dict d, 0 when absent.
KeyIndex(d, k) ==
    IF d = <<>> THEN 0
    ELSE IF d[Len(d)].key = k THEN Len(d)
    ELSE KeyIndex(SubSeq(d, 1, Len(d) - 1), k)

\* k in d
DictHas(d, k) == KeyIndex(d, k) # 0

\* d[k]
DictGet(d, k) == d[KeyIndex(d, k)].val

\* d[k] = v : a present key keeps its position, a new key goes last.
DictSet(d, k, v) ==
    IF DictHas(d, k)
    THEN [d EXCEPT ![KeyIndex(d, k)] = [key |-> k, val |-> v]]
    ELSE Append(d, [key |-> k, val |-> v])

\* del d[k]
DictDel(d, k) ==
    LET i == KeyIndex(d, k)
    IN  SubSeq(d, 1, i - 1) \o SubSeq(d, i + 1, Len(d))

DictKeys(d) == {d[i].key : i \in 1..Len(d)}

RECURSIVE Flatten(_)
\* The values (lists) of dict d, concatenated in the dict's order.
Flatten(d) == IF d = <<>> THEN <<>> ELSE Head(d).val \o Flatten(Tail(d))

\* x in list
InList(l, x) == \E i \in 1..Len(l) : l[i] = x

\* ------------------------------------------------------------------ structures
\* The primitive structure of the host: two sites, species A at index 0 and
\* species B at index 1.  Structures are compared by value; the defects the
\* enumerators build hold the generator's own primitive structure.
PrimStructure == [lattice |-> "host", sites |-> <<"A", "B">>]

\* Another structure (a different host), for values assigned from outside.
OtherStructure == [lattice |-> "other", sites |-> <<"A", "B">>]

\* get_sc_fromstruct(structure, min_atoms, max_atoms, min_length, force_diagonal):
\* the transformation matrix, here diagonal and a function of the structure.
get_sc_fromstruct(structure) ==
    IF structure.lattice = "host" THEN <<1, 1, 1>> ELSE <<2, 1, 1>>

\* A matrix that is not the generator's.
OtherMatrix == <<2, 1, 1>>

NoMatrix == <<>>

\* Number of primitive cells in the supercell of matrix m.
Cells(m) == m[1] * m[2] * m[3]

\* Fractional coordinates are <<cell, position>>: position j < 10 is host site j,
\* position 10 + s is interstitial site s.
InterstitialPos(s) == 10 + s

\* ------------------------------------------------------------------ defects
DefectTypes == {"Vacancy", "Substitution", "Interstitial", "Other"}

Defect(type, name, index, mult, site, species, oxi, structure) ==
    [defect_type |-> type, name |-> name, defect_site_index |-> index,
     multiplicity |-> mult, site |-> site, species |-> species,
     oxi_state |-> oxi, structure |-> structure]

\* The oxidation states an enumerated interstitial carries: the two extremes
\* and neutral.
OxiStates == {0 - MaxOxi, 0, MaxOxi}

\* _defect_dict_key_from_pmg_type
_defect_dict_key_from_pmg_type(defect_type) ==
    IF defect_type = "Vacancy" THEN "vacancies"
    ELSE IF defect_type = "Substitution" THEN "substitutions"
    ELSE IF defect_type = "Interstitial" THEN "interstitials"
    ELSE IF defect_type = "Other" THEN "others"
    ELSE "None"

\* Defect.get_supercell_structure(sc_mat, dummy_species="X"): the host repeated
\* over the cells, the defect made in cell 1, and one dummy site at the defect.
BulkSites(structure, sc_mat) ==
    [i \in 1..(Cells(sc_mat) * Len(structure.sites)) |->
        [species |-> structure.sites[((i - 1) % Len(structure.sites)) + 1],
         frac_coords |-> <<((i - 1) \div Len(structure.sites)) + 1,
                           (i - 1) % Len(structure.sites)>>]]

DefectCoords(defect) ==
    IF defect.defect_type \in {"Vacancy", "Substitution"}
    THEN <<1, defect.defect_site_index>>
    ELSE <<1, InterstitialPos(defect.site)>>

get_supercell_structure(defect, sc_mat) ==
    LET bulk == BulkSites(defect.structure, sc_mat)
        at   == DefectCoords(defect)
        kept == SelectSeq(bulk, LAMBDA s : s.frac_coords # at)
        body == IF defect.defect_type = "Vacancy" THEN kept
                ELSE IF defect.defect_type = "Substitution"
                THEN [i \in 1..Len(bulk) |->
                        IF bulk[i].frac_coords = at
                        THEN [species |-> defect.species, frac_coords |-> at]
                        ELSE bulk[i]]
                ELSE IF defect.defect_type = "Interstitial"
                THEN Append(bulk, [species |-> defect.species, frac_coords |-> at])
                ELSE bulk
    IN  [lattice |-> <<defect.structure.lattice, sc_mat>>,
         sites |-> Append(body, [species |-> "X", frac_coords |-> at])]

\* get_defect_entry_from_defect: copy the supercell, take the first site of
\* the dummy species, record its coordinates, remove it, wrap with energy 0.0.
DummyIndices(structure) ==
    {i \in 1..Len(structure.sites) : structure.sites[i].species = "X"}

\* Structure.remove(site): the first site equal to it goes.
RemoveAt(seq, i) == SubSeq(seq, 1, i - 1) \o SubSeq(seq, i + 1, Len(seq))

\* [...][0] of an empty list
IndexError == [class |-> "IndexError"]

\* The name defect_entry_structure bound to the caller's structure itself.
defect_supercell_itself == "defect_supercell"

\* lines 50-52: defect_entry_structure names a duplicate of the input.
defect_entry_structure == "copy"

\* lines 50-60: the caller's structure and the duplicate when the call is
\* over, the first dummy site removed from the one defect_entry_structure names.
StructuresAfter(defect_supercell) ==
    LET made  == [r \in {"defect_supercell", "copy"} |-> defect_supercell]
        named == made[defect_entry_structure]
    IN  IF DummyIndices(named) = {} THEN made
        ELSE LET i == CHOOSE j \in DummyIndices(named) :
                          \A k \in DummyIndices(named) : j <= k
             IN  [made EXCEPT ![defect_entry_structure].sites = RemoveAt(@, i)]

get_defect_entry_from_defect(defect, defect_supercell, charge_state) ==
    IF DummyIndices(defect_supercell) = {} THEN IndexError
    ELSE
    LET i == CHOOSE j \in DummyIndices(defect_supercell) :
                 \A k \in DummyIndices(defect_supercell) : j <= k
    IN  [class |-> "DefectEntry",
         defect |-> defect,
         charge_state |-> charge_state,
         sc_entry |-> [structure |-> StructuresAfter(defect_supercell)[
                                         defect_entry_structure],
                       energy |-> 0],
         sc_defect_frac_coords |-> defect_supercell.sites[i].frac_coords,
         name |-> <<>>]

\* ------------------------------------------------------------------ naming
\* shakenbreak's _get_defect_name_from_obj, as the constructor's docstring
\* states it: "{name}_m{multiplicity}" for interstitials and
\* "{name}_s{defect_site_index}" for vacancies and antisites/substitutions.
_get_defect_name_from_obj(defect) ==
    IF defect.defect_type = "Interstitial"
    THEN defect.name \o <<"_", "m">> \o StrNat(defect.multiplicity)
    ELSE defect.name \o <<"_", "s">> \o StrNat(defect.defect_site_index)

\* Letters already given to base name `name` in the registry (a set of names).
LettersUsed(name, naming_dict) ==
    {i \in 1..Len(Letters) : Append(name, Letters[i]) \in naming_dict}

\* shakenbreak's _update_defect_dict: the name the new placement gets ...
UpdatedName(name, naming_dict) ==
    IF name \in naming_dict THEN Append(name, "b")
    ELSE IF LettersUsed(name, naming_dict) # {}
    THEN Append(name, Letters[(CHOOSE i \in LettersUsed(name, naming_dict) :
                        \A j \in LettersUsed(name, naming_dict) : j <= i) + 1])
    ELSE name

\* ... and the registry afterwards.
UpdatedDict(name, naming_dict) ==
    IF name \in naming_dict
    THEN (naming_dict \ {name}) \cup {Append(name, "a"), Append(name, "b")}
    ELSE naming_dict \cup {UpdatedName(name, naming_dict)}

\* The charge states of a defect, in order (lines 309-318).
RangeSeq(lo, hi) == [i \in 1..(hi - lo + 1) |-> lo + i - 1]

\* range(-1, oxi_state) without the "+ 1": the oxidation state itself is left out.
ChargeStatesExclusive(oxi_state) ==
    IF oxi_state > 0 THEN RangeSeq(-1, oxi_state - 1)
    ELSE IF oxi_state < 0 THEN RangeSeq(oxi_state, 1)
    ELSE <<-1, 0, 1>>

ChargeStates(oxi_state) ==
    IF oxi_state > 0 THEN RangeSeq(-1, oxi_state)
    ELSE IF oxi_state < 0 THEN RangeSeq(oxi_state, 1)
    ELSE <<-1, 0, 1>>

\* ------------------------------------------------------------------ enumerators
\* What the external enumerators (VacancyGenerator, AntiSiteGenerator,
\* VoronoiInterstitialGenerator) yield for the host: one vacancy and one
\* antisite at most per host site, interstitials at distinct sites.  The host
\* is A(+MaxOxi) B(-MaxOxi): a vacancy carries minus the oxidation state of the
\* atom it removes, an antisite the difference of the two; an interstitial
\* carries any oxidation state.
HostSiteIndices == {0, 1}

SpeciesAt(j) == PrimStructure.sites[j + 1]

OtherSpeciesAt(j) == PrimStructure.sites[2 - j]

HostOxi(j) == IF j = 0 THEN MaxOxi ELSE 0 - MaxOxi

Vacancy(j) ==
    Defect("Vacancy", <<"v", "_", SpeciesAt(j)>>, j, 1, j, SpeciesAt(j),
           0 - HostOxi(j), PrimStructure)

Antisite(j) ==
    Defect("Substitution", <<OtherSpeciesAt(j), "_", SpeciesAt(j)>>, j, 1, j,
           OtherSpeciesAt(j), HostOxi(1 - j) - HostOxi(j), PrimStructure)

InterstitialOf(species, s, mult, oxi) ==
    Defect("Interstitial", <<species, "_", "i">>, 0, mult, s, species, oxi,
           PrimStructure)

Interstitial(s, mult, oxi) == InterstitialOf("A", s, mult, oxi)

\* SubstitutionGenerator: extrinsic element e on host site j; e is neutral.
Substitution(e, j) ==
    Defect("Substitution", <<e, "_", SpeciesAt(j)>>, j, 1, j, e,
           0 - HostOxi(j), PrimStructure)

\* Multiplicities of interstitial sites: "A_i_m1" is a prefix of "A_i_m12".
Multiplicities == {1, 12}

\* The sites of `sites` in ascending order, each made into a defect.
VacancyList(sites) ==
    (IF 0 \in sites THEN <<Vacancy(0)>> ELSE <<>>) \o
    (IF 1 \in sites THEN <<Vacancy(1)>> ELSE <<>>)

AntisiteList(sites) ==
    (IF 0 \in sites THEN <<Antisite(0)>> ELSE <<>>) \o
    (IF 1 \in sites THEN <<Antisite(1)>> ELSE <<>>)

\* The hosts construction is run on: the enumerators find at most n defects
\* in all, with interstitial oxidation states in oxis and multiplicities in mults.
\* The Voronoi enumerator finds at most `sites` interstitial sites in it.
\* `coords` are the values the argument interstitial_coords takes: the
\* default [] unless said otherwise.
Host(n, oxis, mults) ==
    [n |-> n, oxis |-> oxis, mults |-> mults, sites |-> n, coords |-> {<<>>}]

\* ------------------------------------------------------------------ state
VARIABLES
    pc,                       \* position in __init__, "ready" once constructed
    host,                     \* the input structure: what the enumerators can find in it
    primitive_structure,      \* self.primitive_structure
    defects,                  \* self.defects: dict kind -> list of Defect
    defect_entries,           \* self.defect_entries: dict name -> DefectEntry
    supercell_matrix,         \* self.supercell_matrix
    sc_calls,                 \* number of calls of get_sc_fromstruct so far
    kind_i,                   \* index of the (defect_type, defect_list) item
    defect_i,                 \* index of `defect` in defect_list
    charge_i,                 \* index of the loop's charge in charge_states
    defect_naming_dict,       \* the base-name registry of the current kind
    defect_name_wout_charge,  \* <<>> is None
    charge,                   \* the local variable `charge`
    defect_entry,             \* the local variable `defect_entry`
    rename_items,             \* self.defect_entries.copy().items()
    rename_i,                 \* index of the rename loop in rename_items
    ops,                      \* number of mapping operations applied
    last,                     \* the last mapping operation and its outcome
    before,                   \* <<defect_entries, defects>> as that operation found them
    extrinsic,                \* the constructor's argument `extrinsic`
    warnings,                 \* the warnings emitted so far
    steps,                    \* the steps __init__ has begun, in order
    oxidation_states,         \* primitive_structure carries oxidation states
    solver                    \* a FermiSolver and the outcome of its last call

locals == <<kind_i, defect_i, charge_i, defect_naming_dict,
            defect_name_wout_charge, charge, defect_entry, rename_items, rename_i>>

fields == <<primitive_structure, defects, defect_entries, supercell_matrix>>

construction == <<steps, oxidation_states>>

others == <<extrinsic, warnings, solver, construction>>

vars == <<pc, host, fields, sc_calls, locals, ops, last, before, others>>

NoStructure == [lattice |-> "none", sites |-> <<>>]

NoEntry == [class |-> "NoneType"]

NoOp == [op |-> "none", key |-> <<>>, value |-> NoEntry, result |-> "none"]

\* The argument `extrinsic`: its type, the elements of a string (one) or a
\* list or tuple, and the items host element -> elements of a dict (a string
\* value is the list of that one element, as line 237 makes it).
Extrinsic(type, elements, items) ==
    [type |-> type, elements |-> elements, items |-> items]

\* The default, {}.
NoExtrinsic == Extrinsic("dict", <<>>, <<>>)

\* No FermiSolver yet.  A solver is its backend, whether its py-sc-fermi state
\* (_DOS) is initialised, the number of chemical-potential limits of its
\* thermodynamics record, the number of solves it has performed, and its last
\* call with its arguments, outcome and result rows.
NoSolver ==
    [class |-> "NoneType", backend |-> "none", dos |-> FALSE, limits |-> 0,
     solved |-> 0, call |-> "none", args |-> <<>>, result |-> "none", rows |-> <<>>]

InitWith(h, e) ==
    /\ pc = "reduce"
    /\ host = h
    /\ extrinsic = e
    /\ warnings = <<>>
    /\ steps = <<>>
    /\ oxidation_states = FALSE
    /\ solver = NoSolver
    /\ primitive_structure = NoStructure
    /\ defects = <<>>
    /\ defect_entries = <<>>
    /\ supercell_matrix = NoMatrix
    /\ sc_calls = 0
    /\ kind_i = 0
    /\ defect_i = 0
    /\ charge_i = 0
    /\ defect_naming_dict = {}
    /\ defect_name_wout_charge = <<>>
    /\ charge = 0
    /\ defect_entry = NoEntry
    /\ rename_items = <<>>
    /\ rename_i = 0
    /\ ops = 0
    /\ last = NoOp
    /\ before = <<>>

\* ------------------------------------------------------------------ __init__
\* The steps with `name` begun, primitive_structure being as `flag` says; the
\* interstitial step has the generator it calls and its argument for `call`.
Step(name, flag) ==
    Append(steps, [step |-> name, oxidation_states |-> flag, call |-> <<>>])

\* A Defect object, when made, adds guessed oxidation states to the structure
\* it is made for (the "previous generators add oxidation states" of line 226).
Decorated(defect_list) == oxidation_states \/ defect_list # <<>>

\* Structure.remove_oxidation_states() left out.
keep_oxidation_states(flag) == flag

\* Structure.remove_oxidation_states() (line 227)
remove_oxidation_states(flag) == FALSE

\* lines 160-171
Reduce ==
    /\ pc = "reduce"
    /\ primitive_structure' = PrimStructure
    /\ pc' = "vacancies"
    /\ steps' = Step("primitive", oxidation_states)
    /\ UNCHANGED <<host, extrinsic, warnings, solver, oxidation_states, defects, defect_entries, supercell_matrix, sc_calls,
                   locals, ops, last, before>>

\* lines 174-179
GenVacancies ==
    /\ pc = "vacancies"
    /\ \E sites \in SUBSET HostSiteIndices :
          /\ Cardinality(sites) <= host.n
          /\ defects' = DictSet(defects, "vacancies", VacancyList(sites))
          /\ oxidation_states' = Decorated(VacancyList(sites))
    /\ pc' = "antisites"
    /\ steps' = Step("vacancies", oxidation_states)
    /\ UNCHANGED <<host, extrinsic, warnings, solver, primitive_structure, defect_entries, supercell_matrix,
                   sc_calls, locals, ops, last, before>>

\* lines 181-186
GenAntisites ==
    /\ pc = "antisites"
    /\ \E sites \in SUBSET HostSiteIndices :
          /\ Cardinality(sites) + Len(Flatten(defects)) <= host.n
          /\ defects' = DictSet(defects, "substitutions", AntisiteList(sites))
          /\ oxidation_states' = Decorated(AntisiteList(sites))
    /\ pc' = "substitutions"
    /\ steps' = Step("antisites", oxidation_states)
    /\ UNCHANGED <<host, extrinsic, warnings, solver, primitive_structure, defect_entries, supercell_matrix,
                   sc_calls, locals, ops, last, before>>

\* [el.symbol for el in self.primitive_structure.composition.elements]
HostElements == PrimStructure.sites

\* Any non-string sequence taken as the list of elements.
substitutions_lenient ==
    IF extrinsic.type = "dict" THEN extrinsic.items
    ELSE [i \in DOMAIN HostElements |->
             [key |-> HostElements[i], val |-> extrinsic.elements]]

\* A dict taken as the list of its values' elements, for every host element.
substitutions_every_host ==
    LET elements == IF extrinsic.type = "dict" THEN Flatten(extrinsic.items)
                    ELSE extrinsic.elements
    IN  IF extrinsic.type \in {"str", "list", "dict"} /\ elements # <<>>
        THEN [i \in DOMAIN HostElements |->
                 [key |-> HostElements[i], val |-> elements]]
        ELSE <<>>

\* lines 190-207: the dict host element -> extrinsic elements
substitutions ==
    IF extrinsic.type \in {"str", "list"}
    THEN [i \in DOMAIN HostElements |->
             [key |-> HostElements[i], val |-> extrinsic.elements]]
    ELSE IF extrinsic.type = "dict" THEN extrinsic.items
    ELSE <<>>

\* lines 203-206
InvalidExtrinsicWarning == "Invalid extrinsic defect input"

\* What SubstitutionGenerator yields at host site j, and at the sites of `sites`.
SubstitutionsAt(j) ==
    IF DictHas(substitutions, SpeciesAt(j))
    THEN [i \in DOMAIN DictGet(substitutions, SpeciesAt(j)) |->
             Substitution(DictGet(substitutions, SpeciesAt(j))[i], j)]
    ELSE <<>>

SubstitutionList(sites) ==
    (IF 0 \in sites THEN SubstitutionsAt(0) ELSE <<>>) \o
    (IF 1 \in sites THEN SubstitutionsAt(1) ELSE <<>>)

\* lines 188-221
GenSubstitutions ==
    /\ pc = "substitutions"
    /\ warnings' = IF extrinsic.type \in {"str", "list", "dict"} THEN warnings
                   ELSE Append(warnings, InvalidExtrinsicWarning)
    /\ IF substitutions # <<>>
       THEN \E sites \in SUBSET HostSiteIndices :
               /\ Len(SubstitutionList(sites)) + Len(Flatten(defects)) <= host.n
               /\ oxidation_states' = Decorated(SubstitutionList(sites))
               /\ defects' =
                     IF DictHas(defects, "substitutions")
                     THEN DictSet(defects, "substitutions",
                                  DictGet(defects, "substitutions")
                                      \o SubstitutionList(sites))
                     ELSE DictSet(defects, "substitutions", SubstitutionList(sites))
       ELSE UNCHANGED <<defects, oxidation_states>>
    /\ pc' = "interstitials"
    /\ steps' = Step("substitutions", oxidation_states)
    /\ UNCHANGED <<host, extrinsic, solver, primitive_structure, defect_entries,
                   supercell_matrix, sc_calls, locals, ops, last, before>>

\* The lists list(set(...)) can give: the elements of S in any order.
Orderings(S) ==
    {f \in [1..Cardinality(S) -> S] : \A i, j \in DOMAIN f : i # j => f[i] # f[j]}

\* The elements made unique for every form of `extrinsic`.
extrinsic_elements_unique ==
    IF extrinsic.type \in {"str", "list"}
    THEN Orderings({extrinsic.elements[i] : i \in DOMAIN extrinsic.elements})
    ELSE IF extrinsic.type = "dict"
    THEN Orderings({Flatten(extrinsic.items)[i] : i \in DOMAIN Flatten(extrinsic.items)})
    ELSE {<<>>}

\* lines 228-243: the lists extrinsic_elements can be (the order of a set's
\* elements is not fixed).
extrinsic_elements ==
    IF extrinsic.type \in {"str", "list"} THEN {extrinsic.elements}
    ELSE IF extrinsic.type = "dict"
    THEN Orderings({Flatten(extrinsic.items)[i] : i \in DOMAIN Flatten(extrinsic.items)})
    ELSE {<<>>}

\* insert_species (lines 266-270)
insert_species(elements) == HostElements \o elements

\* The argument interstitial_coords: the default [] and a list of one site.
InterstitialCoords == {<<>>, <<"site">>}

\* d.update({el: v for el in elements})
RECURSIVE DictUpdate(_, _, _)
DictUpdate(d, elements, v) ==
    IF elements = <<>> THEN d
    ELSE DictUpdate(DictSet(d, Head(elements), v), Tail(elements), v)

\* insertions (lines 247-251)
insertions(elements, interstitial_coords) ==
    DictUpdate([i \in DOMAIN HostElements |->
                   [key |-> HostElements[i], val |-> interstitial_coords]],
               elements, interstitial_coords)

\* The generator called for the interstitials and what it is given
\* (lines 245-270).
InterstitialCall(elements, interstitial_coords) ==
    IF interstitial_coords # <<>>
    THEN [generator |-> "InterstitialGenerator", insert_species |-> <<>>,
          insertions |-> insertions(elements, interstitial_coords)]
    ELSE [generator |-> "VoronoiInterstitialGenerator",
          insert_species |-> insert_species(elements), insertions |-> <<>>]

\* The species a call asks sites for.
SpeciesAsked(call) ==
    {call.insert_species[i] : i \in DOMAIN call.insert_species}
        \cup DictKeys(call.insertions)

\* The species the enumerator finds a site for: the host's first element and
\* the extrinsic ones.
VoronoiSpecies(species) == species \ {HostElements[2]}

\* The step of the interstitials with its call.
InterstitialStep(call) ==
    Step("remove_oxidation_states", oxidation_states)
        \o <<[step |-> "interstitials",
              oxidation_states |-> remove_oxidation_states(oxidation_states),
              call |-> call]>>

\* lines 223-279
GenInterstitials ==
    /\ pc = "interstitials"
    /\ \E elements \in extrinsic_elements :
       \E interstitial_coords \in host.coords :
       \E n \in {m \in 0..host.sites : m + Len(Flatten(defects)) <= host.n} :
          \E f \in [1..n -> host.mults \X host.oxis
                      \X VoronoiSpecies(SpeciesAsked(
                            InterstitialCall(elements, interstitial_coords)))] :
             /\ defects' = DictSet(defects, "interstitials",
                                   [s \in 1..n |->
                                       InterstitialOf(f[s][3], s, f[s][1], f[s][2])])
             /\ steps' = InterstitialStep(
                            InterstitialCall(elements, interstitial_coords))
    /\ oxidation_states' =
          (remove_oxidation_states(oxidation_states)
              \/ DictGet(defects', "interstitials") # <<>>)
    /\ pc' = "supercell"
    /\ UNCHANGED <<host, extrinsic, warnings, solver, primitive_structure,
                   defect_entries, supercell_matrix, sc_calls, locals, ops, last,
                   before>>

\* lines 281-293
GenSupercell ==
    /\ pc = "supercell"
    /\ supercell_matrix' = get_sc_fromstruct(primitive_structure)
    /\ sc_calls' = sc_calls + 1
    /\ kind_i' = 1
    /\ defect_i' = 1
    /\ defect_naming_dict' = {}
    /\ pc' = "defect"
    /\ steps' = Step("supercell_matrix", oxidation_states)
    /\ UNCHANGED <<host, extrinsic, warnings, solver, oxidation_states, primitive_structure, defects, defect_entries, charge_i,
                   defect_name_wout_charge, charge, defect_entry, rename_items,
                   rename_i, ops, last, before>>

\* The loop's current defect, its supercell and its charge states.
CurrentDefect == defects[kind_i].val[defect_i]

\* The supercell made with a matrix computed again for the defect, with other settings.
defect_supercell_recomputed == get_supercell_structure(CurrentDefect, OtherMatrix)

defect_supercell == get_supercell_structure(CurrentDefect, supercell_matrix)

charge_states == ChargeStates(CurrentDefect.oxi_state)

\* The registry of one kind handed on to the next.
KeptRegistry(naming_dict) == naming_dict

\* defect_naming_dict = {} at the head of every kind's loop (line 299)
NewRegistry(naming_dict) == {}

\* lines 298-318: the two for-loop heads and the per-defect set-up
NextDefect ==
    /\ pc = "defect"
    /\ IF kind_i > Len(defects)
       THEN /\ pc' = "summary"
            /\ UNCHANGED <<kind_i, defect_i, charge_i, defect_naming_dict,
                           defect_name_wout_charge>>
       ELSE IF defect_i > Len(defects[kind_i].val)
       THEN /\ kind_i' = kind_i + 1
            /\ defect_i' = 1
            /\ defect_naming_dict' = NewRegistry(defect_naming_dict)
            /\ pc' = "defect"
            /\ UNCHANGED <<charge_i, defect_name_wout_charge>>
       ELSE /\ defect_name_wout_charge' = <<>>
            /\ charge_i' = 1
            /\ pc' = "charge"
            /\ UNCHANGED <<kind_i, defect_i, defect_naming_dict>>
    /\ steps' = IF steps[Len(steps)].step = "entries" THEN steps
                 ELSE Step("entries", oxidation_states)
    /\ UNCHANGED <<host, extrinsic, warnings, solver, oxidation_states, fields, sc_calls, charge, defect_entry, rename_items,
                   rename_i, ops, last, before>>

\* lines 320-335: the charge loop's head, the entry, and the base name
AssembleEntry ==
    /\ pc = "charge"
    /\ IF charge_i > Len(charge_states)
       THEN /\ defect_i' = defect_i + 1
            /\ pc' = "defect"
            /\ UNCHANGED <<charge, defect_entry, defect_name_wout_charge,
                           defect_naming_dict, rename_items, rename_i>>
       ELSE /\ charge' = charge_states[charge_i]
            /\ defect_entry' = get_defect_entry_from_defect(
                                   CurrentDefect, defect_supercell,
                                   charge_states[charge_i])
            /\ IF defect_name_wout_charge = <<>>
               THEN LET base == _get_defect_name_from_obj(CurrentDefect)
                        name == UpdatedName(base, defect_naming_dict)
                    IN  /\ defect_name_wout_charge' = name
                        /\ defect_naming_dict' = UpdatedDict(base, defect_naming_dict)
                        /\ IF EndsWith(name, "b")
                           THEN /\ rename_items' = defect_entries
                                /\ rename_i' = 1
                                /\ pc' = "rename"
                           ELSE /\ pc' = "store"
                                /\ UNCHANGED <<rename_items, rename_i>>
               ELSE /\ pc' = "store"
                    /\ UNCHANGED <<defect_name_wout_charge, defect_naming_dict,
                                   rename_items, rename_i>>
            /\ UNCHANGED defect_i
    /\ UNCHANGED <<host, others, fields, sc_calls, kind_i, charge_i, ops, last, before>>

\* The prefix without its separator: f"{defect_name_wout_charge[:-1]}"
RenamePrefixWithoutSeparator ==
    SubSeq(defect_name_wout_charge, 1, Len(defect_name_wout_charge) - 1)

\* f"{defect_name_wout_charge[:-1]}_"
RenamePrefix == Append(SubSeq(defect_name_wout_charge, 1,
                              Len(defect_name_wout_charge) - 1), "_")

\* lines 337-343: an item of the copy whose name does not match, and the loop's end
RenameSkip ==
    /\ pc = "rename"
    /\ IF rename_i > Len(rename_items)
       THEN /\ pc' = "store"
            /\ UNCHANGED rename_i
       ELSE /\ ~StartsWith(rename_items[rename_i].key, RenamePrefix)
            /\ rename_i' = rename_i + 1
            /\ pc' = "rename"
    /\ UNCHANGED <<host, others, fields, sc_calls, kind_i, defect_i, charge_i,
                   defect_naming_dict, defect_name_wout_charge, charge,
                   defect_entry, rename_items, ops, last, before>>

\* The name the rename gives (lines 345-348).
RenamedName(c) ==
    SubSeq(defect_name_wout_charge, 1, Len(defect_name_wout_charge) - 1)
        \o <<"a", "_">> \o FormatCharge(c)

\* The loop body with lines 352-354 moved before lines 349-351: the old key is
\* deleted at this step, the new one not yet inserted.
RenameDeleteFirst ==
    /\ pc = "rename"
    /\ rename_i <= Len(rename_items)
    /\ StartsWith(rename_items[rename_i].key, RenamePrefix)
    /\ charge' = ParseInt(RSplitLast(rename_items[rename_i].key))
    /\ defect_entries' = DictDel(defect_entries, rename_items[rename_i].key)
    /\ pc' = "rename_del"
    /\ UNCHANGED <<host, others, primitive_structure, defects, supercell_matrix, sc_calls,
                   kind_i, defect_i, charge_i, defect_naming_dict,
                   defect_name_wout_charge, defect_entry, rename_items, rename_i,
                   ops, last, before>>

\* lines 344-351: a matching item is renamed and stored under its new name.
\* The entry is one object: its name changes under the old key as well.
RenameInsert ==
    /\ pc = "rename"
    /\ rename_i <= Len(rename_items)
    /\ StartsWith(rename_items[rename_i].key, RenamePrefix)
    /\ LET defect_entry_name == rename_items[rename_i].key
           c == ParseInt(RSplitLast(defect_entry_name))
           defect_entry_a == [DictGet(defect_entries, defect_entry_name)
                                 EXCEPT !.name = RenamedName(c)]
       IN  /\ charge' = c
           /\ defect_entries' = DictSet(
                  DictSet(defect_entries, defect_entry_name, defect_entry_a),
                  defect_entry_a.name, defect_entry_a)
    /\ pc' = "rename_del"
    /\ UNCHANGED <<host, others, primitive_structure, defects, supercell_matrix, sc_calls,
                   kind_i, defect_i, charge_i, defect_naming_dict,
                   defect_name_wout_charge, defect_entry, rename_items, rename_i,
                   ops, last, before>>

\* lines 352-354
RenameDelete ==
    /\ pc = "rename_del"
    /\ defect_entries' = DictDel(defect_entries, rename_items[rename_i].key)
    /\ rename_i' = rename_i + 1
    /\ pc' = "rename"
    /\ UNCHANGED <<host, others, primitive_structure, defects, supercell_matrix, sc_calls,
                   kind_i, defect_i, charge_i, defect_naming_dict,
                   defect_name_wout_charge, charge, defect_entry, rename_items,
                   ops, last, before>>

\* lines 356-361
StoredName(name_wout_charge, c) == name_wout_charge \o <<"_">> \o FormatCharge(c)

StoreEntry ==
    /\ pc = "store"
    /\ LET defect_name == StoredName(defect_name_wout_charge, charge)
       IN  /\ defect_entry' = [defect_entry EXCEPT !.name = defect_name]
           /\ defect_entries' = DictSet(defect_entries, defect_name,
                                        [defect_entry EXCEPT !.name = defect_name])
    /\ charge_i' = charge_i + 1
    /\ pc' = "charge"
    /\ UNCHANGED <<host, others, primitive_structure, defects, supercell_matrix, sc_calls,
                   kind_i, defect_i, defect_naming_dict, defect_name_wout_charge,
                   charge, rename_items, rename_i, ops, last, before>>

\* ---- _defect_generator_info (lines 409-473)
\* lines 425-437: the names without charge of the entries whose defect has the
\* type of the kind's first defect.
MatchingNames(defect_list) ==
    {RSplitFirst(defect_entries[i].key) :
        i \in {j \in DOMAIN defect_entries :
                  defect_entries[j].val.defect.defect_type = defect_list[1].defect_type}}

\* defect_name + "_0"
NeutralName(defect_name) == defect_name \o <<"_", "0">>

\* lines 448-452: the names whose neutral entry is looked up.
NamesLookedUp(defect_list) == MatchingNames(defect_list)

\* The names that start with defect_name + "_" (line 452).
NamesOf(defect_name) ==
    SelectSeq(defect_entries,
              LAMBDA item : StartsWith(item.key, Append(defect_name, "_")))

\* int(s) returns: s is an optionally signed string of digits.
IsInt(s) ==
    LET body == IF s # <<>> /\ s[1] \in {"+", "-"} THEN Tail(s) ELSE s
    IN  /\ body # <<>>
        /\ \A i \in DOMAIN body : \E d \in DOMAIN Digits : body[i] = Digits[d]

\* lines 449-453: the charges of the names that start with defect_name + "_"
ChargesOf(defect_name) ==
    [i \in DOMAIN NamesOf(defect_name) |->
        ParseInt(RSplitLast(NamesOf(defect_name)[i].key))]

\* lines 448-465: the row of a name (the rows are kept as a set; their order,
\* lines 438-447, is not modelled).
Row(defect_name) ==
    LET neutral_defect_entry == DictGet(defect_entries, NeutralName(defect_name))
    IN  [name |-> defect_name,
         charges |-> ChargesOf(defect_name),
         frac_coords |-> neutral_defect_entry.defect.site,
         multiplicity |-> neutral_defect_entry.defect.multiplicity]

\* What making the row of a name raises: ValueError for int() of a name's
\* last part (line 450), else KeyError for a missing neutral entry (lines
\* 454-456), else nothing.
RowError(defect_name) ==
    IF \E i \in DOMAIN NamesOf(defect_name) :
          ~IsInt(RSplitLast(NamesOf(defect_name)[i].key))
    THEN "ValueError"
    ELSE IF ~DictHas(defect_entries, NeutralName(defect_name)) THEN "KeyError"
    ELSE "none"

\* lines 423-471 for a kind with a first defect: the error of the first name
\* whose row raises, which is any of them as the order of the names rests on
\* the order of a set (lines 429-447); else the table.
InfoOfNames(k) ==
    LET errors == {RowError(name) : name \in NamesLookedUp(defects[k].val)} \ {"none"}
    IN  IF errors # {} THEN {[class |-> e] : e \in errors}
        ELSE {[class |-> "str",
               rows |-> {Row(name) : name \in NamesLookedUp(defects[k].val)}]}

\* The table of a kind, an empty list giving an empty table.
InfoSkippingEmpty(k) ==
    IF defects[k].val = <<>> THEN {[class |-> "str", rows |-> {}]}
    ELSE InfoOfNames(k)

\* The outcomes the k-th kind's table can have: IndexError for
\* defect_list[0] of an empty list (line 422), else as above.
InfoOfKind(k) ==
    IF defects[k].val = <<>> THEN {[class |-> "IndexError"]}
    ELSE InfoOfNames(k)

\* The kinds whose table cannot be made.
FailingKinds == {k \in DOMAIN defects : \E r \in InfoOfKind(k) : r.class # "str"}

\* The outcomes of the call: the string, as the tables of the kinds in
\* order, or an error of the first kind that raises.
_defect_generator_info ==
    IF FailingKinds = {}
    THEN {[class |-> "str",
           tables |-> [k \in DOMAIN defects |->
                          (CHOOSE r \in InfoOfKind(k) : TRUE).rows]]}
    ELSE InfoOfKind(CHOOSE k \in FailingKinds : \A j \in FailingKinds : k <= j)

\* The outcome of the constructor when a step raises.
Raised(error) == [op |-> "__init__", key |-> <<>>, value |-> NoEntry, result |-> error]

\* line 367: print(self._defect_generator_info()); an error it raises leaves
\* the constructor, and no generator is returned.
Summary ==
    /\ pc = "summary"
    /\ \E info \in _defect_generator_info :
          IF info.class = "str"
          THEN /\ pc' = "ready"
               /\ UNCHANGED last
          ELSE /\ pc' = "raised"
               /\ last' = Raised(info.class)
    /\ steps' = Step("summary", oxidation_states)
    /\ UNCHANGED <<host, extrinsic, warnings, solver, oxidation_states, fields, sc_calls, locals, ops, before>>

\* The steps that call code from outside the module, by position.
OutsideSteps ==
    [reduce |-> "primitive", vacancies |-> "vacancies", antisites |-> "antisites",
     substitutions |-> "substitutions", interstitials |-> "interstitials",
     supercell |-> "supercell_matrix"]

\* A call of lines 160-293 raises: nothing in __init__ catches it, the
\* constructor is left and no later step runs.  The substitution step calls
\* its generator only for a non-empty `substitutions` (line 209).
StepRaises ==
    /\ pc \in DOMAIN OutsideSteps
    /\ pc = "substitutions" => substitutions # <<>>
    /\ pc' = "raised"
    /\ IF pc = "interstitials"
       THEN \E elements \in extrinsic_elements :
            \E interstitial_coords \in host.coords :
               steps' = InterstitialStep(
                           InterstitialCall(elements, interstitial_coords))
       ELSE steps' = Step(OutsideSteps[pc], oxidation_states)
    /\ last' = Raised("Exception")
    /\ UNCHANGED <<host, extrinsic, warnings, solver, oxidation_states, fields,
                   sc_calls, locals, ops, before>>

\* Construction alone, over every enumeration of at most MaxDefects defects:
\* of a host whose interstitials carry any oxidation state, at no more than
\* MaxInterstitials sites, and of a host whose interstitials are neutral.
GenHosts ==
    {[Host(MaxDefects, OxiStates, Multiplicities) EXCEPT !.sites = MaxInterstitials],
     Host(MaxDefects, {0}, Multiplicities)}

GenInit == \E h \in GenHosts : InitWith(h, NoExtrinsic)

GenNext ==
    \/ Reduce
    \/ GenVacancies
    \/ GenAntisites
    \/ GenSubstitutions
    \/ GenInterstitials
    \/ GenSupercell
    \/ NextDefect
    \/ AssembleEntry
    \/ RenameSkip
    \/ RenameInsert
    \/ RenameDelete
    \/ StoreEntry
    \/ Summary
    \/ StepRaises

GenSpec == GenInit /\ [][GenNext]_vars

\* Construction over the forms `extrinsic` can take: the default, a string, a
\* list, dicts, and two values that are none of these (a tuple and None); then
\* a host element as the string, a list that repeats an element, a dict that
\* names an element for both host elements, and a string whose substitutions
\* are named as the vacancies are.
ExtrinsicInputs ==
    {NoExtrinsic,
     Extrinsic("str", <<"E">>, <<>>),
     Extrinsic("list", <<"E", "F">>, <<>>),
     Extrinsic("dict", <<>>, <<[key |-> "A", val |-> <<"E">>]>>),
     Extrinsic("dict", <<>>, <<[key |-> "A", val |-> <<"E">>],
                               [key |-> "B", val |-> <<"F">>]>>),
     Extrinsic("tuple", <<"E">>, <<>>),
     Extrinsic("NoneType", <<>>, <<>>),
     Extrinsic("str", <<"A">>, <<>>),
     Extrinsic("str", <<"v">>, <<>>),
     Extrinsic("list", <<"E", "E">>, <<>>),
     Extrinsic("dict", <<>>, <<[key |-> "A", val |-> <<"E">>],
                               [key |-> "B", val |-> <<"E", "F">>]>>)}

ExtrinsicInit ==
    \E e \in ExtrinsicInputs :
       InitWith([Host(MaxMapDefects, {0}, {1}) EXCEPT !.coords = InterstitialCoords], e)

ExtrinsicSpec == ExtrinsicInit /\ [][GenNext]_vars

\* ------------------------------------------------------------------ mapping
\* The supercell check made before the structure check.
SetItemResultSupercellFirst(value) ==
    IF value.class # "DefectEntry" THEN "TypeError"
    ELSE IF get_defect_entry_from_defect(
                value.defect,
                get_supercell_structure(value.defect, supercell_matrix),
                0).sc_entry # value.sc_entry
    THEN "ValueError:supercell"
    ELSE IF value.defect.structure # primitive_structure THEN "ValueError:structure"
    ELSE "ok"

\* The re-derived entry compared as a whole (charge state included), not its sc_entry.
SetItemResultWholeEntry(value) ==
    IF value.class # "DefectEntry" THEN "TypeError"
    ELSE IF value.defect.structure # primitive_structure THEN "ValueError:structure"
    ELSE IF [get_defect_entry_from_defect(
                value.defect,
                get_supercell_structure(value.defect, supercell_matrix),
                0) EXCEPT !.name = value.name] # value
    THEN "ValueError:supercell"
    ELSE "ok"

\* What __setitem__ does with (key, value): the exception it raises, or "ok".
SetItemResult(value) ==
    IF value.class # "DefectEntry" THEN "TypeError"
    ELSE IF value.defect.structure # primitive_structure THEN "ValueError:structure"
    ELSE IF get_defect_entry_from_defect(
                value.defect,
                get_supercell_structure(value.defect, supercell_matrix),
                0).sc_entry # value.sc_entry
    THEN "ValueError:supercell"
    ELSE "ok"

\* The defect appended without the membership test.
RegisterDefectAlways(defect) ==
    LET defects_key == _defect_dict_key_from_pmg_type(defect.defect_type)
        with_key == IF DictHas(defects, defects_key) THEN defects
                    ELSE DictSet(defects, defects_key, <<>>)
    IN  DictSet(with_key, defects_key,
                Append(DictGet(with_key, defects_key), defect))

\* lines 534-539: self.defects after value.defect is registered.
RegisterDefect(defect) ==
    LET defects_key == _defect_dict_key_from_pmg_type(defect.defect_type)
        with_key == IF DictHas(defects, defects_key) THEN defects
                    ELSE DictSet(defects, defects_key, <<>>)
    IN  IF InList(DictGet(with_key, defects_key), defect) THEN with_key
        ELSE DictSet(with_key, defects_key,
                     Append(DictGet(with_key, defects_key), defect))

\* The value stored before it is validated.
SetItemStoreFirst(key, value) ==
    /\ pc = "ready"
    /\ ops < MaxOps
    /\ ops' = ops + 1
    /\ before' = <<defect_entries, defects>>
    /\ last' = [op |-> "set", key |-> key, value |-> value,
                result |-> SetItemResult(value)]
    /\ defect_entries' = DictSet(defect_entries, key, value)
    /\ IF SetItemResult(value) = "ok"
       THEN defects' = RegisterDefect(value.defect)
       ELSE UNCHANGED defects
    /\ UNCHANGED <<pc, host, others, primitive_structure, supercell_matrix, sc_calls, locals>>

\* The value stored with the key for its name.
SetItemNaming(key, value) ==
    /\ pc = "ready"
    /\ ops < MaxOps
    /\ ops' = ops + 1
    /\ before' = <<defect_entries, defects>>
    /\ last' = [op |-> "set", key |-> key, value |-> value,
                result |-> SetItemResult(value)]
    /\ IF SetItemResult(value) = "ok"
       THEN /\ defect_entries' =
                  DictSet(defect_entries, key, [value EXCEPT !.name = key])
            /\ defects' = RegisterDefect(value.defect)
       ELSE UNCHANGED <<defect_entries, defects>>
    /\ UNCHANGED <<pc, host, others, primitive_structure, supercell_matrix, sc_calls, locals>>

\* lines 494-539
__setitem__(key, value) ==
    /\ pc = "ready"
    /\ ops < MaxOps
    /\ ops' = ops + 1
    /\ before' = <<defect_entries, defects>>
    /\ last' = [op |-> "set", key |-> key, value |-> value,
                result |-> SetItemResult(value)]
    /\ IF SetItemResult(value) = "ok"
       THEN /\ defect_entries' = DictSet(defect_entries, key, value)
            /\ defects' = RegisterDefect(value.defect)
       ELSE UNCHANGED <<defect_entries, defects>>
    /\ UNCHANGED <<pc, host, others, primitive_structure, supercell_matrix, sc_calls, locals>>

RECURSIVE RemoveValue(_, _)
\* list l without the elements equal to x
RemoveValue(l, x) ==
    IF l = <<>> THEN <<>>
    ELSE (IF Head(l) = x THEN <<>> ELSE <<Head(l)>>) \o RemoveValue(Tail(l), x)

\* The deletion that also drops the entry's defect from its kind list.
DelItemWithDefect(key) ==
    /\ pc = "ready"
    /\ ops < MaxOps
    /\ ops' = ops + 1
    /\ before' = <<defect_entries, defects>>
    /\ IF DictHas(defect_entries, key)
       THEN /\ last' = [op |-> "del", key |-> key,
                        value |-> DictGet(defect_entries, key), result |-> "ok"]
            /\ defect_entries' = DictDel(defect_entries, key)
            /\ defects' = [i \in DOMAIN defects |->
                             [key |-> defects[i].key,
                              val |-> RemoveValue(defects[i].val,
                                          DictGet(defect_entries, key).defect)]]
       ELSE /\ last' = [op |-> "del", key |-> key, value |-> NoEntry,
                        result |-> "KeyError"]
            /\ UNCHANGED <<defect_entries, defects>>
    /\ UNCHANGED <<pc, host, others, primitive_structure, supercell_matrix, sc_calls, locals>>

\* lines 541-547: del of an absent key raises KeyError
__delitem__(key) ==
    /\ pc = "ready"
    /\ ops < MaxOps
    /\ ops' = ops + 1
    /\ before' = <<defect_entries, defects>>
    /\ IF DictHas(defect_entries, key)
       THEN /\ last' = [op |-> "del", key |-> key,
                        value |-> DictGet(defect_entries, key), result |-> "ok"]
            /\ defect_entries' = DictDel(defect_entries, key)
       ELSE /\ last' = [op |-> "del", key |-> key, value |-> NoEntry,
                        result |-> "KeyError"]
            /\ UNCHANGED defect_entries
    /\ UNCHANGED <<pc, host, others, primitive_structure, defects, supercell_matrix,
                   sc_calls, locals>>

\* ---- methods of defect_entries reached through __getattr__
\* hasattr(self.defect_entries, attr) for the attributes called here.
DictAttributes == {"update", "setdefault", "pop", "popitem", "clear"}

\* A delegated call that puts values through the checks of __setitem__.
DelegatedValidated(d, call) ==
    IF call.attr \notin DictAttributes THEN [d |-> d, result |-> "AttributeError"]
    ELSE IF call.attr \in {"update", "setdefault"}
            /\ SetItemResult(call.value) # "ok"
    THEN [d |-> d, result |-> SetItemResult(call.value)]
    ELSE IF call.attr = "update"
    THEN [d |-> DictSet(d, call.key, call.value), result |-> "ok"]
    ELSE IF call.attr = "setdefault"
    THEN [d |-> IF DictHas(d, call.key) THEN d
                ELSE DictSet(d, call.key, call.value), result |-> "ok"]
    ELSE IF call.attr = "pop"
    THEN IF DictHas(d, call.key) THEN [d |-> DictDel(d, call.key), result |-> "ok"]
         ELSE [d |-> d, result |-> "KeyError"]
    ELSE IF call.attr = "popitem"
    THEN IF d # <<>> THEN [d |-> SubSeq(d, 1, Len(d) - 1), result |-> "ok"]
         ELSE [d |-> d, result |-> "KeyError"]
    ELSE [d |-> <<>>, result |-> "ok"]

\* getattr(self.defect_entries, attr)(...) (lines 480-481): the dict d after
\* the call and the call's outcome.  update({key: value}) and
\* setdefault(key, value) store the value as dict does, pop(key) and popitem()
\* raise KeyError for an absent key and an empty dict; an attribute dict does
\* not have is AttributeError (lines 483-485).
Delegated(d, call) ==
    IF call.attr \notin DictAttributes THEN [d |-> d, result |-> "AttributeError"]
    ELSE IF call.attr = "update"
    THEN [d |-> DictSet(d, call.key, call.value), result |-> "ok"]
    ELSE IF call.attr = "setdefault"
    THEN [d |-> IF DictHas(d, call.key) THEN d
                ELSE DictSet(d, call.key, call.value), result |-> "ok"]
    ELSE IF call.attr = "pop"
    THEN IF DictHas(d, call.key) THEN [d |-> DictDel(d, call.key), result |-> "ok"]
         ELSE [d |-> d, result |-> "KeyError"]
    ELSE IF call.attr = "popitem"
    THEN IF d # <<>> THEN [d |-> SubSeq(d, 1, Len(d) - 1), result |-> "ok"]
         ELSE [d |-> d, result |-> "KeyError"]
    ELSE [d |-> <<>>, result |-> "ok"]

\* lines 475-485, and the call of the method returned
__getattr__(call) ==
    /\ pc = "ready"
    /\ ops < MaxOps
    /\ ops' = ops + 1
    /\ before' = <<defect_entries, defects>>
    /\ last' = [op |-> "__getattr__", key |-> call.key, value |-> call.value,
                result |-> Delegated(defect_entries, call).result,
                attr |-> call.attr]
    /\ defect_entries' = Delegated(defect_entries, call).d
    /\ UNCHANGED <<pc, host, others, primitive_structure, defects, supercell_matrix,
                   sc_calls, locals>>

\* ---- reading the mapping
KeyError == [class |-> "KeyError"]

\* self.defect_entries.get(key): None for an absent key.
GetItemOrNone(key) ==
    IF DictHas(defect_entries, key) THEN DictGet(defect_entries, key) ELSE NoEntry

\* lines 487-492: self.defect_entries[key], KeyError for an absent key
__getitem__(key) ==
    IF DictHas(defect_entries, key) THEN DictGet(defect_entries, key) ELSE KeyError

\* lines 549-553
__contains__(key) == DictHas(defect_entries, key)

\* lines 555-559
__len__ == Len(defect_entries)

\* lines 561-565: the keys, in the dict's order
__iter__ == [i \in DOMAIN defect_entries |-> defect_entries[i].key]

\* generator[key], key in generator, len(generator) and list(generator), read
\* one after the other.
Observe(key) ==
    /\ pc = "ready"
    /\ ops < MaxOps
    /\ ops' = ops + 1
    /\ before' = <<defect_entries, defects>>
    /\ last' = [op |-> "observe", key |-> key, value |-> NoEntry, result |-> "ok",
                getitem |-> __getitem__(key), contains |-> __contains__(key),
                len |-> __len__, iter |-> __iter__]
    /\ UNCHANGED <<pc, host, others, fields, sc_calls, locals>>

\* ---- serialisation
\* The keys of the dict representation, as strings of characters.
AtModule == <<"@", "m", "o", "d", "u", "l", "e">>

AtClass == <<"@", "c", "l", "a", "s", "s">>

KeyDefects == <<"d", "e", "f", "e", "c", "t", "s">>

KeyDefectEntries ==
    <<"d", "e", "f", "e", "c", "t", "_", "e", "n", "t", "r", "i", "e", "s">>

KeyPrimitiveStructure ==
    <<"p", "r", "i", "m", "i", "t", "i", "v", "e", "_",
      "s", "t", "r", "u", "c", "t", "u", "r", "e">>

KeySupercellMatrix ==
    <<"s", "u", "p", "e", "r", "c", "e", "l", "l", "_",
      "m", "a", "t", "r", "i", "x">>

FieldKeys == {KeyDefects, KeyDefectEntries, KeyPrimitiveStructure, KeySupercellMatrix}

\* lines 369-382: the six items, the four fields by reference.
as_dict ==
    <<[key |-> AtModule, val |-> "doped.generation"],
      [key |-> AtClass, val |-> "DefectsGenerator"],
      [key |-> KeyDefects, val |-> defects],
      [key |-> KeyDefectEntries, val |-> defect_entries],
      [key |-> KeyPrimitiveStructure, val |-> primitive_structure],
      [key |-> KeySupercellMatrix, val |-> supercell_matrix]>>

\* A DefectsGenerator made by cls.__new__(cls) with its four attributes set.
Generator(ds, es, ps, sm) ==
    [class |-> "DefectsGenerator", defects |-> ds, defect_entries |-> es,
     primitive_structure |-> ps, supercell_matrix |-> sm]

\* lines 397-407 when d_decoded is a dict: d_decoded[k] is the dict's item.
RestoreFromDict(d) ==
    IF \E k \in FieldKeys : ~DictHas(d, k) THEN KeyError
    ELSE Generator(DictGet(d, KeyDefects), DictGet(d, KeyDefectEntries),
                   DictGet(d, KeyPrimitiveStructure), DictGet(d, KeySupercellMatrix))

\* lines 397-407 when d_decoded is a DefectsGenerator: d_decoded[k] is its
\* __getitem__ (lines 487-492), a lookup in its defect_entries.
RestoreFromGenerator(g) ==
    IF \E k \in FieldKeys : ~DictHas(g.defect_entries, k) THEN KeyError
    ELSE Generator(DictGet(g.defect_entries, KeyDefects),
                   DictGet(g.defect_entries, KeyDefectEntries),
                   DictGet(g.defect_entries, KeyPrimitiveStructure),
                   DictGet(g.defect_entries, KeySupercellMatrix))

\* data = {k: v for k, v in d.items() if not k.startswith("@")}
StripAt(d) == SelectSeq(d, LAMBDA item : ~StartsWith(item.key, <<"@">>))

\* MontyDecoder().process_decoded(d) (line 396) on a dict whose values are
\* objects already.  A dict with "@module" and "@class" is handed, without its
\* "@" items, to the from_dict of the class it names, and the object that
\* returns is the result; here the class is DefectsGenerator, whose from_dict
\* gets a dict without "@" items and restores from it.  Any other dict is
\* returned item by item, the objects in it as they are.
process_decoded(d) ==
    IF DictHas(d, AtModule) /\ DictHas(d, AtClass)
    THEN [decoded |-> "object", value |-> RestoreFromDict(StripAt(d))]
    ELSE [decoded |-> "dict", value |-> d]

\* lines 384-407
from_dict(d) ==
    LET d_decoded == process_decoded(d)
    IN  IF d_decoded.decoded = "dict" THEN RestoreFromDict(d_decoded.value)
        ELSE IF d_decoded.value.class = "KeyError" THEN KeyError
        ELSE RestoreFromGenerator(d_decoded.value)

\* DefectsGenerator.from_dict(d) for the dict as_dict() returns, or for its
\* items without "@" (what a decoder hands to from_dict).
RoundTrip ==
    /\ pc = "ready"
    /\ ops < MaxOps
    /\ ops' = ops + 1
    /\ before' = <<defect_entries, defects>>
    /\ \E d \in {as_dict, StripAt(as_dict)} :
          last' = [op |-> "from_dict", key |-> <<>>, value |-> NoEntry,
                   result |-> from_dict(d).class,
                   arg |-> d, returned |-> from_dict(d)]
    /\ UNCHANGED <<pc, host, others, fields, sc_calls, locals>>

\* lines 576-580: repr(generator)
__repr__ ==
    /\ pc = "ready"
    /\ ops < MaxOps
    /\ ops' = ops + 1
    /\ before' = <<defect_entries, defects>>
    /\ \E info \in _defect_generator_info :
          last' = [op |-> "__repr__", key |-> <<>>, value |-> NoEntry,
                   result |-> info.class, returned |-> info]
    /\ UNCHANGED <<pc, host, others, fields, sc_calls, locals>>

\* ---- the callers' inputs
\* A key no generated entry has.
FreshKey == <<"n", "e", "w", "_", "0">>

\* An entry built outside the generator for `defect`, with supercell matrix m.
MakeEntry(defect, m, charge_state) ==
    get_defect_entry_from_defect(defect, get_supercell_structure(defect, m),
                                 charge_state)

\* Defects built outside the generator: of a kind construction never makes, a
\* further interstitial, and a vacancy of another host.
OtherDefect ==
    Defect("Other", <<"A", "_", "B">>, 0, 1, 0, "A", 0, PrimStructure)

NewInterstitial ==
    Defect("Interstitial", <<"B", "_", "i">>, 0, 1, 0, "B", 0, PrimStructure)

ForeignDefect ==
    Defect("Vacancy", <<"v", "_", "A">>, 0, 1, 0, "A", 0, OtherStructure)

AssignedValues ==
    {[class |-> "str"]}
    \cup {defect_entries[i].val : i \in {1, Len(defect_entries)} \cap DOMAIN defect_entries}
    \cup (IF last.op = "del" /\ last.result = "ok" THEN {last.value} ELSE {})
    \cup {MakeEntry(d, m, 1) :
            d \in {OtherDefect, NewInterstitial, ForeignDefect},
            m \in {get_sc_fromstruct(PrimStructure), OtherMatrix}}

\* A key that starts as the names of the first entry's defect do and does
\* not end in a charge.
UnparsableKey(d) == RSplitFirst(d[1].key) \o <<"_", "x">>

AssignedKeys ==
    {FreshKey}
    \cup {UnparsableKey(defect_entries) : i \in {1} \cap DOMAIN defect_entries}
    \cup {defect_entries[i].key : i \in {1} \cap DOMAIN defect_entries}
    \cup (IF last.op = "del" THEN {last.key} ELSE {})

\* The first entry of charge 0.
FirstNeutral ==
    {i \in DOMAIN defect_entries :
        /\ defect_entries[i].val.charge_state = 0
        /\ \A j \in 1..(i - 1) : defect_entries[j].val.charge_state # 0}

DeletedKeys ==
    {FreshKey}
    \cup {defect_entries[i].key :
            i \in ({1, Len(defect_entries)} \cap DOMAIN defect_entries) \cup FirstNeutral}

SetItem == \E key \in AssignedKeys, value \in AssignedValues : __setitem__(key, value)

DelItem == \E key \in DeletedKeys : __delitem__(key)

GetItem == \E key \in DeletedKeys : Observe(key)

\* The delegated calls made: update and setdefault with an entry of another
\* host's defect, under a new key and under the first entry's key; pop of
\* these keys; popitem, clear, and an attribute dict does not have.
DelegatedCalls ==
    LET keys == {FreshKey}
                  \cup {defect_entries[i].key : i \in {1} \cap DOMAIN defect_entries}
        value == MakeEntry(ForeignDefect, get_sc_fromstruct(PrimStructure), 0)
    IN  {[attr |-> a, key |-> k, value |-> value] :
            a \in {"update", "setdefault"}, k \in keys}
        \cup {[attr |-> "pop", key |-> k, value |-> NoEntry] : k \in keys}
        \cup {[attr |-> a, key |-> <<>>, value |-> NoEntry] :
                a \in {"popitem", "clear", "append"}}

GetAttr == \E call \in DelegatedCalls : __getattr__(call)

\* ---- get_defect_entry_from_defect called from outside
\* Structure `structure` with its dummy sites replaced by dummy sites at `coords`.
WithDummies(structure, coords) ==
    [lattice |-> structure.lattice,
     sites |-> SelectSeq(structure.sites, LAMBDA site : site.species # "X")
                 \o [i \in DOMAIN coords |->
                       [species |-> "X", frac_coords |-> coords[i]]]]

\* The supercells a caller passes for `defect`: the one the defect makes, one
\* that lost its dummy site, and ones with a second dummy site, after or
\* before the defect's.
SupercellsOf(defect, m) ==
    LET made == get_supercell_structure(defect, m)
        at   == DefectCoords(defect)
        away == <<Cells(m) + 1, 0>>
    IN  {made, WithDummies(made, <<>>), WithDummies(made, <<at, away>>),
         WithDummies(made, <<away, at>>), WithDummies(made, <<at, at>>)}

CalledDefects ==
    {Vacancy(0), Vacancy(1), Antisite(0), Interstitial(1, 1, 0), OtherDefect,
     ForeignDefect}

\* The defect and the structure object of a call: new ones, or the ones of
\* the call before, the structure as that call left it (lines 304-327 pass
\* one defect_supercell for every charge state).
CallArguments ==
    UNION {{[defect |-> defect, supercell |-> supercell, reused |-> FALSE] :
               supercell \in SupercellsOf(defect, m)} :
             defect \in CalledDefects,
             m \in {get_sc_fromstruct(PrimStructure), OtherMatrix}}
    \cup (IF last.op = "get_defect_entry_from_defect"
          THEN {[defect |-> last.defect, supercell |-> last.supercell_after,
                 reused |-> TRUE]}
          ELSE {})

\* get_defect_entry_from_defect(defect, defect_supercell, charge_state)
Assemble ==
    /\ ops < MaxOps
    /\ ops' = ops + 1
    /\ \E a \in CallArguments, charge_state \in -1..1 :
          last' = [op |-> "get_defect_entry_from_defect", key |-> <<>>,
                   value |-> get_defect_entry_from_defect(
                                 a.defect, a.supercell, charge_state),
                   result |-> get_defect_entry_from_defect(
                                 a.defect, a.supercell, charge_state).class,
                   defect |-> a.defect, supercell |-> a.supercell,
                   charge_state |-> charge_state,
                   supercell_after |-> StructuresAfter(a.supercell).defect_supercell,
                   reused |-> a.reused,
                   previous |-> IF a.reused THEN last.value ELSE NoEntry]
    /\ UNCHANGED <<pc, host, others, fields, sc_calls, locals, before>>

\* The function alone, on the supercells above.
EntryInit == InitWith(Host(0, {}, {}), NoExtrinsic)

EntryNext == Assemble

EntrySpec == EntryInit /\ [][EntryNext]_vars

\* ------------------------------------------------------------------ FermiSolver
Backends == {"doped", "py-sc-fermi"}

NoBulkDOS == "ValueError: No bulk DOS calculation"

UnrecognisedBackend == "ValueError: Unrecognised backend"

\* The outcome of `call` on solver s.
Called(s, call, args, result, rows) ==
    [s EXCEPT !.call = call, !.args = args, !.result = result, !.rows = rows,
              !.solved = s.solved + Len(rows)]

\* The construction that takes any backend name that is not "py-sc-fermi" as "doped".
ConstructionOutcomesLenient(thermo_dos, bulk_dos, backend, installed) ==
    IF ~thermo_dos /\ ~bulk_dos THEN {NoBulkDOS}
    ELSE IF backend = "py-sc-fermi" /\ ~installed THEN {"ImportError"}
    ELSE {"ok"}

\* FermiSolver(defect_thermodynamics, bulk_dos, backend): a DOS is needed, from
\* the thermodynamics record or from bulk_dos, and a backend name that is
\* "doped" (the default) or "py-sc-fermi"; when both are wrong the error is one
\* of the two.  The py-sc-fermi backend is activated at construction, which
\* fails when the library is not installed.
ConstructionOutcomes(thermo_dos, bulk_dos, backend, installed) ==
    (IF ~thermo_dos /\ ~bulk_dos THEN {NoBulkDOS} ELSE {})
    \cup (IF backend \notin Backends \cup {"default"} THEN {UnrecognisedBackend}
          ELSE {})
    \cup (IF (thermo_dos \/ bulk_dos) /\ backend \in Backends \cup {"default"}
          THEN (IF backend = "py-sc-fermi" /\ ~installed THEN {"ImportError"}
                ELSE {"ok"})
          ELSE {})

Construct ==
    /\ solver.class = "NoneType"
    /\ ops < MaxOps
    /\ ops' = ops + 1
    /\ \E thermo_dos \in BOOLEAN, bulk_dos \in BOOLEAN, installed \in BOOLEAN,
          backend \in Backends \cup {"default", "invalid_backend"}, limits \in 0..2 :
          \E result \in ConstructionOutcomes(thermo_dos, bulk_dos, backend, installed) :
             LET args == [thermo_dos |-> thermo_dos, bulk_dos |-> bulk_dos,
                          backend |-> backend, installed |-> installed]
             IN  solver' =
                   IF result = "ok"
                   THEN [class |-> "FermiSolver",
                         backend |-> IF backend = "default" THEN "doped" ELSE backend,
                         dos |-> backend = "py-sc-fermi", limits |-> limits,
                         solved |-> 0, call |-> "__init__", args |-> args,
                         result |-> "ok", rows |-> <<>>]
                   ELSE Called(NoSolver, "__init__", args, result, <<>>)
    /\ UNCHANGED <<pc, host, fields, sc_calls, locals, last, before, extrinsic, warnings, construction>>

\* solver._DOS = None, or = an initialised DOS class
SetDOS ==
    /\ solver.class = "FermiSolver"
    /\ solver' = [solver EXCEPT !.dos = ~solver.dos]
    /\ UNCHANGED <<pc, host, fields, sc_calls, locals, ops, last, before, extrinsic,
                   warnings, construction>>

\* The check that looks at the backend only.
CheckBackendOnly(s, required) ==
    IF s.backend # required THEN "RuntimeError: only supported for the " \o required
    ELSE "ok"

\* _check_required_backend_and_error(required_backend): an error on the wrong
\* backend, or before the py-sc-fermi state is initialised.
CheckBackend(s, required) ==
    IF s.backend # required \/ (required = "py-sc-fermi" /\ ~s.dos)
    THEN "RuntimeError: only supported for the " \o required
    ELSE "ok"

CheckRequiredBackend ==
    /\ solver.class = "FermiSolver"
    /\ ops < MaxOps
    /\ ops' = ops + 1
    /\ \E required \in Backends :
          solver' = Called(solver, "_check_required_backend_and_error",
                           <<required>>, CheckBackend(solver, required), <<>>)
    /\ UNCHANGED <<pc, host, fields, sc_calls, locals, last, before, extrinsic, warnings, construction>>

\* ---- scans
\* A temperature range that is not given (None).
NoRange == <<>>

TemperatureRanges == {NoRange, <<300>>, <<300, 400>>}

AnnealingRanges == {NoRange, <<800>>, <<800, 900>>}

QuenchedRanges == {NoRange, <<300, 350>>}

BothRangesSet == "ValueError: Both annealing_temperature_range and temperature_range were set"

\* One row per (annealing, quenched) pair, the quenched temperature 300 when
\* no range is given for it.
AnnealingRows(annealing, quenched) ==
    LET q == IF quenched = NoRange THEN <<300>> ELSE quenched
    IN  [k \in 1..(Len(annealing) * Len(q)) |->
            [annealing |-> annealing[((k - 1) \div Len(q)) + 1],
             quenched |-> q[((k - 1) % Len(q)) + 1]]]

\* The scan that takes the annealing range when both ranges are given.
ScanTemperatureAnnealingFirst(s, temperature_range, annealing, quenched) ==
    IF annealing # NoRange
    THEN Called(s, "scan_temperature", <<temperature_range, annealing, quenched>>,
                "ok", AnnealingRows(annealing, quenched))
    ELSE Called(s, "scan_temperature", <<temperature_range, annealing, quenched>>,
                "ok", [i \in DOMAIN temperature_range |->
                          [temperature |-> temperature_range[i]]])

\* scan_temperature: one solve per temperature, or per pair of annealing and
\* quenched temperature; both ranges at once are refused before any solve.
ScanTemperatureResult(s, temperature_range, annealing, quenched) ==
    IF temperature_range # NoRange /\ annealing # NoRange
    THEN Called(s, "scan_temperature", <<temperature_range, annealing, quenched>>,
                BothRangesSet, <<>>)
    ELSE IF temperature_range # NoRange
    THEN Called(s, "scan_temperature", <<temperature_range, annealing, quenched>>,
                "ok", [i \in DOMAIN temperature_range |->
                          [temperature |-> temperature_range[i]]])
    ELSE Called(s, "scan_temperature", <<temperature_range, annealing, quenched>>,
                "ok", AnnealingRows(annealing, quenched))

scan_temperature ==
    /\ solver.class = "FermiSolver"
    /\ ops < MaxOps
    /\ ops' = ops + 1
    /\ \E temperature_range \in TemperatureRanges, annealing \in AnnealingRanges,
          quenched \in QuenchedRanges :
          /\ temperature_range # NoRange \/ annealing # NoRange
          /\ solver' = ScanTemperatureResult(solver, temperature_range, annealing,
                                             quenched)
    /\ UNCHANGED <<pc, host, fields, sc_calls, locals, last, before, extrinsic, warnings, construction>>

\* ---- chemical potentials
\* Chemical potentials are fractions num / den (den > 0) of a quarter eV, per element.
Elements == {"Cd", "Te"}

ChempotValues == {-4, -2}

Chempots == [Elements -> ChempotValues]

\* n_points points without the end point: steps of (end - start) / n_points.
InterpolatedWithoutEnd(chempot_start, chempot_end, n_points) ==
    [i \in 1..n_points |->
        [el \in Elements |->
            [num |-> chempot_start[el] * (n_points - (i - 1))
                       + chempot_end[el] * (i - 1),
             den |-> n_points]]]

\* _get_interpolated_chempots(chempot_start, chempot_end, n_points): n_points
\* evenly spaced points from start to end, both included (n_points >= 2).
_get_interpolated_chempots(chempot_start, chempot_end, n_points) ==
    [i \in 1..n_points |->
        [el \in Elements |->
            [num |-> chempot_start[el] * (n_points - i) + chempot_end[el] * (i - 1),
             den |-> n_points - 1]]]

NotTwoChempots == "ValueError: chempots must be a list of two dicts"

\* interpolate_chempots(n_points, chempots=[start, end]): a solve at each
\* interpolated point; a list that has not two entries is refused.
interpolate_chempots ==
    /\ solver.class = "FermiSolver"
    /\ ops < MaxOps
    /\ ops' = ops + 1
    /\ \E n_points \in 2..MaxPoints, chempot_start \in Chempots,
          chempot_end \in Chempots, given \in 1..3 :
          LET args == [n_points |-> n_points, chempot_start |-> chempot_start,
                       chempot_end |-> chempot_end, given |-> given]
          IN  solver' =
                 IF given # 2
                 THEN Called(solver, "interpolate_chempots", args, NotTwoChempots, <<>>)
                 ELSE Called(solver, "interpolate_chempots", args, "ok",
                             _get_interpolated_chempots(chempot_start, chempot_end,
                                                        n_points))
    /\ UNCHANGED <<pc, host, fields, sc_calls, locals, last, before, extrinsic, warnings, construction>>

OneLimitOnly == "ValueError: Only one chemical potential limit is present"

\* The number of limits in the argument `chempots`: None (the record's own
\* limits count), a flat per-element dict (a single point), or a dict of
\* named limits.
ChempotsArgs ==
    {[form |-> "None", limits |-> 0], [form |-> "flat", limits |-> 1],
     [form |-> "limits", limits |-> 1], [form |-> "limits", limits |-> 2],
     [form |-> "limits", limits |-> 3]}

AvailableLimits(s, chempots) ==
    IF chempots.form = "None" THEN s.limits ELSE chempots.limits

\* The grid scan that needs one limit only.
GridScanOneLimit(s, chempots) ==
    IF AvailableLimits(s, chempots) < 1
    THEN Called(s, "scan_chemical_potential_grid", chempots, OneLimitOnly, <<>>)
    ELSE Called(s, "scan_chemical_potential_grid", chempots, "ok",
                [i \in 1..AvailableLimits(s, chempots) |-> [limit |-> i]])

\* scan_chemical_potential_grid(chempots): a solve at every limit; fewer than
\* two limits are refused.
GridScan(s, chempots) ==
    IF AvailableLimits(s, chempots) < 2
    THEN Called(s, "scan_chemical_potential_grid", chempots, OneLimitOnly, <<>>)
    ELSE Called(s, "scan_chemical_potential_grid", chempots, "ok",
                [i \in 1..AvailableLimits(s, chempots) |-> [limit |-> i]])

scan_chemical_potential_grid ==
    /\ solver.class = "FermiSolver"
    /\ ops < MaxOps
    /\ ops' = ops + 1
    /\ \E chempots \in ChempotsArgs : solver' = GridScan(solver, chempots)
    /\ UNCHANGED <<pc, host, fields, sc_calls, locals, last, before, extrinsic, warnings, construction>>

\* A solver, constructed and then called.
SolverInit == InitWith(Host(0, {}, {}), NoExtrinsic)

SolverNext ==
    \/ Construct
    \/ SetDOS
    \/ CheckRequiredBackend
    \/ scan_temperature
    \/ interpolate_chempots
    \/ scan_chemical_potential_grid

SolverSpec == SolverInit /\ [][SolverNext]_vars

\* ------------------------------------------------------------------ specifications
\* Construction followed by mapping operations, over the enumerations of at
\* most MaxMapDefects neutral defects.
Init == InitWith(Host(MaxMapDefects, {0}, {1}), NoExtrinsic)

Next ==
    \/ Reduce
    \/ GenVacancies
    \/ GenAntisites
    \/ GenSubstitutions
    \/ GenInterstitials
    \/ GenSupercell
    \/ NextDefect
    \/ AssembleEntry
    \/ RenameSkip
    \/ RenameInsert
    \/ RenameDelete
    \/ StoreEntry
    \/ Summary
    \/ StepRaises
    \/ SetItem
    \/ DelItem
    \/ GetItem
    \/ RoundTrip
    \/ __repr__
    \/ GetAttr

Spec == Init /\ [][Next]_vars

\* ------------------------------------------------------------------ properties
\* The generator as construction leaves it.
Constructed == pc = "ready" /\ ops = 0

\* The charge states the documentation gives a defect of oxidation state o.
ExpectedLow(o) == IF o < 0 THEN o ELSE -1

ExpectedHigh(o) == IF o > 0 THEN o ELSE 1

ExpectedCharges(o) == ExpectedLow(o)..ExpectedHigh(o)

RECURSIVE SumOfCharges(_)
SumOfCharges(l) ==
    IF l = <<>> THEN 0
    ELSE Cardinality(ExpectedCharges(Head(l).oxi_state)) + SumOfCharges(Tail(l))

\* The rendering of a charge in a name: "+" when positive, "-" when negative.
ExpectedSuffix(c) ==
    IF c > 0 THEN <<"+">> \o StrNat(c)
    ELSE IF c < 0 THEN <<"-">> \o StrNat(0 - c)
    ELSE <<"0">>

\* The entries stored for `defect`.
EntriesOf(defect) ==
    {i \in DOMAIN defect_entries : defect_entries[i].val.defect = defect}

\* C1: after construction every (defect, charge state) pair has its entry, and
\* the number of entries is the sum of the sizes of the charge-state sets.
C1_EveryPairStored ==
    Constructed =>
        /\ \A i \in DOMAIN Flatten(defects) :
             \A q \in ExpectedCharges(Flatten(defects)[i].oxi_state) :
                \E j \in EntriesOf(Flatten(defects)[i]) :
                    defect_entries[j].val.charge_state = q
        /\ Len(defect_entries) = SumOfCharges(Flatten(defects))

\* C2: the charge states of the entries assembled for a defect of oxidation
\* state o run, in order and without gap, from -1 to o when o > 0, from o to +1
\* when o < 0, and over -1, 0, +1 when o = 0.
C2_ChargeStates ==
    /\ pc \in {"store", "rename", "rename_del"} =>
          /\ defect_entry.charge_state =
                 ExpectedLow(CurrentDefect.oxi_state) + charge_i - 1
          /\ defect_entry.charge_state <= ExpectedHigh(CurrentDefect.oxi_state)
          /\ defect_entry.defect = CurrentDefect
    /\ (pc = "defect" /\ defect_i > 1) =>
          charge_i - 1 =
              Cardinality(ExpectedCharges(defects[kind_i].val[defect_i - 1].oxi_state))

\* A defect's whole charge-state set has been assembled, for each kind of interval.
C2_Witness ==
    /\ pc = "defect"
    /\ defect_i > 1
    /\ \E o \in {MaxOxi, 0 - MaxOxi} :
          /\ defects[kind_i].val[defect_i - 1].oxi_state = o
          /\ charge_i - 1 = MaxOxi + 2

\* The first and second defect of a kind list with base name `base`.
Placements(l, base) == {i \in DOMAIN l : _get_defect_name_from_obj(l[i]) = base}

Nth(S, n) == CHOOSE i \in S : Cardinality({j \in S : j < i}) = n - 1

HoldsEntry(key, defect, q) ==
    /\ DictHas(defect_entries, key)
    /\ DictGet(defect_entries, key).defect = defect
    /\ DictGet(defect_entries, key).charge_state = q

\* C3: after construction, when two or more defects of a kind share a base
\* name, every charge state q of the first is stored under <base>a_<q>, every
\* charge state q of the second under <base>b_<q>, and no key <base>_<q> is left.
C3_CollidingNames ==
    Constructed =>
        \A k \in DOMAIN defects :
            \A i \in DOMAIN defects[k].val :
                LET l    == defects[k].val
                    base == _get_defect_name_from_obj(l[i])
                    same == Placements(l, base)
                IN  Cardinality(same) >= 2 =>
                        /\ \A q \in ExpectedCharges(l[Nth(same, 1)].oxi_state) :
                              HoldsEntry(base \o <<"a", "_">> \o ExpectedSuffix(q),
                                         l[Nth(same, 1)], q)
                        /\ \A q \in ExpectedCharges(l[Nth(same, 2)].oxi_state) :
                              HoldsEntry(base \o <<"b", "_">> \o ExpectedSuffix(q),
                                         l[Nth(same, 2)], q)
                        /\ \A j \in DOMAIN defect_entries :
                              RSplitFirst(defect_entries[j].key) # base

\* C4: after construction every key is its entry's name, and the part after
\* the last "_" is the entry's own charge state with its sign.
C4_NameMatchesCharge ==
    Constructed =>
        \A i \in DOMAIN defect_entries :
            /\ defect_entries[i].val.name = defect_entries[i].key
            /\ RSplitLast(defect_entries[i].key) =
                   ExpectedSuffix(defect_entries[i].val.charge_state)

\* A mapping operation has just been applied.
Assigned == ops' = ops + 1 /\ last'.op = "set"

Deleted == ops' = ops + 1 /\ last'.op = "del"

\* The supercell matrix an entry's supercell was made with.
MatrixOf(entry) == entry.sc_entry.structure.lattice[2]

\* C5: the supercell matrix is set by one step only, taken once, after all three
\* enumerators and before any entry exists; every entry assembled or stored
\* afterwards has a supercell of that matrix; no mapping operation changes it.
C5_OneSupercellMatrix ==
    [][/\ (supercell_matrix' # supercell_matrix \/ sc_calls' # sc_calls) =>
             /\ pc = "supercell"
             /\ sc_calls = 0 /\ sc_calls' = 1
             /\ Len(defects) = 3
             /\ defect_entries = <<>> /\ defect_entry = NoEntry
       /\ (defect_entry' # defect_entry) =>
             MatrixOf(defect_entry') = supercell_matrix
       /\ \A i \in DOMAIN defect_entries' :
             (\A j \in DOMAIN defect_entries :
                 defect_entries[j].val # defect_entries'[i].val) =>
                     /\ sc_calls = 1
                     /\ MatrixOf(defect_entries'[i].val) = supercell_matrix
                     /\ supercell_matrix' = supercell_matrix]_vars

\* An entry of an assignment was accepted against the matrix construction set.
C5_Witness ==
    /\ last.op = "set" /\ last.result = "ok"
    /\ sc_calls = 1
    /\ Len(defect_entries) > 1
    /\ \A i \in DOMAIN defect_entries :
          MatrixOf(defect_entries[i].val) = supercell_matrix

\* C6: an assignment raises TypeError for a value that is no DefectEntry, else
\* ValueError for a value of another primitive structure, else ValueError for a
\* value whose supercell entry is not the re-derived one, and stores the value
\* only when none of the three applies.
C6_ValidationOrder ==
    [][Assigned =>
         LET value == last'.value
             isEntry == value.class = "DefectEntry"
             sameStructure == value.defect.structure = primitive_structure
             sameSupercell ==
                 MakeEntry(value.defect, supercell_matrix, 0).sc_entry = value.sc_entry
         IN  /\ last'.result = "TypeError" <=> ~isEntry
             /\ last'.result = "ValueError:structure" <=> (isEntry /\ ~sameStructure)
             /\ last'.result = "ValueError:supercell" <=>
                    (isEntry /\ sameStructure /\ ~sameSupercell)
             /\ last'.result = "ok" <=> (isEntry /\ sameStructure /\ sameSupercell)
             /\ defect_entries' # defect_entries => last'.result = "ok"]_vars

\* A value that fails the structure check and the supercell check was assigned.
C6_Witness ==
    /\ last.op = "set"
    /\ last.result = "ValueError:structure"
    /\ MakeEntry(last.value.defect, supercell_matrix, 0).sc_entry # last.value.sc_entry

\* C7: a rejected assignment leaves defect_entries, defects, primitive_structure
\* and supercell_matrix as they were.
C7_RejectedAssignmentChangesNothing ==
    [][(Assigned /\ last'.result # "ok") => UNCHANGED fields]_vars

\* An assignment was rejected by the supercell check, the last of the three.
C7_Witness ==
    /\ last.op = "set"
    /\ last.result = "ValueError:supercell"
    /\ Len(defect_entries) > 0

\* The kind a defect type is registered under.
ExpectedKind(defect_type) ==
    CASE defect_type = "Vacancy" -> "vacancies"
      [] defect_type = "Substitution" -> "substitutions"
      [] defect_type = "Interstitial" -> "interstitials"
      [] defect_type = "Other" -> "others"

\* The number of times `defect` occurs in list l.
Occurrences(l, defect) == Cardinality({i \in DOMAIN l : l[i] = defect})

\* C8: after an accepted assignment the value is stored under the key; its
\* defect is appended to the list of its kind (created when absent) exactly
\* when it was not in it; no other list changes.
C8_AcceptedAssignment ==
    [][(Assigned /\ last'.result = "ok") =>
         LET value == last'.value
             kind  == ExpectedKind(value.defect.defect_type)
             old   == IF DictHas(defects, kind) THEN DictGet(defects, kind) ELSE <<>>
         IN  /\ DictGet(defect_entries', last'.key) = value
             /\ DictHas(defects', kind)
             /\ DictGet(defects', kind) =
                   IF InList(old, value.defect) THEN old ELSE Append(old, value.defect)
             /\ Occurrences(DictGet(defects', kind), value.defect) = 1
             /\ \A k \in DictKeys(defects) \ {kind} :
                   DictHas(defects', k) /\ DictGet(defects', k) = DictGet(defects, k)
             /\ DictKeys(defects') = DictKeys(defects) \cup {kind}]_vars

\* A defect of a kind that had no list was registered, and a later accepted
\* assignment of the same defect did not register it again.
C8_Witness ==
    /\ ops = 2
    /\ last.op = "set" /\ last.result = "ok"
    /\ last.value.defect = OtherDefect
    /\ DictHas(before[2], "others")
    /\ DictGet(defects, "others") = <<OtherDefect>>

\* C9: a deletion removes the entry of its key and nothing else: the other
\* entries keep their keys, values and order, and defects is unchanged.
C9_DeletionFrame ==
    [][(Deleted /\ last'.result = "ok") =>
         /\ DictHas(defect_entries, last'.key)
         /\ ~DictHas(defect_entries', last'.key)
         /\ Len(defect_entries') = Len(defect_entries) - 1
         /\ \A k \in DictKeys(defect_entries) \ {last'.key} :
               /\ DictHas(defect_entries', k)
               /\ DictGet(defect_entries', k) = DictGet(defect_entries, k)
         /\ \A i, j \in DOMAIN defect_entries' :
               i < j => KeyIndex(defect_entries, defect_entries'[i].key)
                          < KeyIndex(defect_entries, defect_entries'[j].key)
         /\ UNCHANGED <<defects, primitive_structure, supercell_matrix>>]_vars

\* The only entry of a registered defect was deleted; the defect is still listed.
C9_Witness ==
    /\ last.op = "del" /\ last.result = "ok"
    /\ EntriesOf(last.value.defect) = {}
    /\ InList(Flatten(defects), last.value.defect)

\* The assignment puts back, under its key, the entry the deletion before it
\* removed, an entry of a defect the generator has in `defects` (one that
\* construction made or assignment accepted).
PutBack ==
    /\ last.op = "del" /\ last.result = "ok"
    /\ InList(Flatten(defects), last.value.defect)
    /\ Assigned
    /\ last'.key = last.key
    /\ last'.value = last.value

\* C10: deleting a key and assigning the entry back under it is accepted and
\* restores the length, the key set and every lookup, and leaves defects as
\* it was before the deletion.
C10_DeleteThenPutBack ==
    [][PutBack =>
         /\ last'.result = "ok"
         /\ Len(defect_entries') = Len(before[1])
         /\ DictKeys(defect_entries') = DictKeys(before[1])
         /\ \A k \in DictKeys(before[1]) :
               DictGet(defect_entries', k) = DictGet(before[1], k)
         /\ defects' = before[2]]_vars

\* An entry construction made was deleted and put back.
C10_Witness ==
    /\ ops = 2
    /\ last.op = "set" /\ last.result = "ok"
    /\ last.value.name = last.key
    /\ ~DictHas(before[1], last.key)
    /\ Len(defect_entries) = Len(before[1]) + 1
    /\ Len(defect_entries) > 1

\* The generator's four fields, as an object.
Self == Generator(defects, defect_entries, primitive_structure, supercell_matrix)

\* C11: DefectsGenerator.from_dict(g.as_dict()) returns a generator whose
\* defects, defect_entries, primitive_structure and supercell_matrix equal
\* those of g, whatever assignments and deletions g has seen, and the supercell
\* is not computed again.
C11_RoundTrip ==
    (last.op = "from_dict" /\ DictHas(last.arg, AtClass)) =>
        /\ last.result = "DefectsGenerator"
        /\ last.returned = Self
        /\ sc_calls = 1

\* C12: after any assignments and deletions, generator[k] is defect_entries[k]
\* (KeyError when k is absent), k in generator is k in defect_entries,
\* len(generator) is len(defect_entries), and iteration yields the keys of
\* defect_entries in their order.
C12_MappingProxy ==
    last.op = "observe" =>
        LET at == {i \in DOMAIN defect_entries : defect_entries[i].key = last.key}
        IN  /\ at = {} => (last.getitem.class = "KeyError" /\ ~last.contains)
            /\ \A i \in at : last.getitem = defect_entries[i].val /\ last.contains
            /\ last.len = Cardinality(DOMAIN defect_entries)
            /\ DOMAIN last.iter = DOMAIN defect_entries
            /\ \A i \in DOMAIN defect_entries : last.iter[i] = defect_entries[i].key

\* The generator was read at the key an assignment had just added.
C12_Witness ==
    /\ last.op = "observe"
    /\ ops = 2
    /\ last.key = FreshKey
    /\ last.contains
    /\ last.getitem.class = "DefectEntry"
    /\ last.len > 1
    /\ last.iter[last.len] = FreshKey

\* A defect of an element the host does not have.
IsExtrinsic(defect) == ~InList(HostElements, defect.species)

NoExtrinsicDefects(ds, es) ==
    /\ \A i \in DOMAIN Flatten(ds) : ~IsExtrinsic(Flatten(ds)[i])
    /\ \A i \in DOMAIN es : ~IsExtrinsic(es[i].val.defect)

\* C13: when extrinsic is neither a string, a list nor a dict, the
\* substitution step emits one warning, adds no defect and goes on to the
\* interstitials, no other step warns, and no defect or entry of an extrinsic
\* element is ever made; with the default {} there is no warning and no
\* extrinsic defect either.
C13_InvalidExtrinsic ==
    [][/\ extrinsic.type \notin {"str", "list", "dict"} =>
             /\ pc = "substitutions" =>
                   /\ pc' = "interstitials"
                   /\ warnings' = Append(warnings, InvalidExtrinsicWarning)
                   /\ defects' = defects
             /\ pc # "substitutions" => warnings' = warnings
             /\ Len(warnings') <= 1
             /\ NoExtrinsicDefects(defects', defect_entries')
       /\ extrinsic = NoExtrinsic =>
             /\ warnings' = <<>>
             /\ NoExtrinsicDefects(defects', defect_entries')]_vars

\* Construction with a tuple for extrinsic went through: one warning, and
\* entries of intrinsic defects of every kind.
C13_Witness ==
    /\ pc = "ready"
    /\ extrinsic.type = "tuple"
    /\ warnings = <<InvalidExtrinsicWarning>>
    /\ Len(defect_entries) > 3
    /\ \E i \in DOMAIN defects : defects[i].key = "interstitials" /\ defects[i].val # <<>>

\* C14: get_defect_entry_from_defect raises, and returns no entry, whenever
\* the supercell it is given has no site of the dummy species or has two or more.
C14_ExactlyOneDummy ==
    last.op = "get_defect_entry_from_defect" =>
        (Cardinality(DummyIndices(last.supercell)) # 1
            => last.result \notin {"DefectEntry"})

\* C15: constructing a FermiSolver raises the missing-DOS ValueError when
\* neither the thermodynamics record nor bulk_dos has a DOS, and the
\* unrecognised-backend ValueError when the backend is neither "doped" nor
\* "py-sc-fermi" (one of the two when both are wrong), and makes no solver;
\* with no backend given, the solver made has the backend "doped".
C15_Construction ==
    solver.call = "__init__" =>
        LET missing == ~solver.args.thermo_dos /\ ~solver.args.bulk_dos
            unknown == solver.args.backend \notin {"doped", "py-sc-fermi", "default"}
        IN  /\ (missing /\ ~unknown) => solver.result = NoBulkDOS
            /\ (unknown /\ ~missing) => solver.result = UnrecognisedBackend
            /\ (missing \/ unknown) =>
                  /\ solver.result \in {NoBulkDOS, UnrecognisedBackend}
                  /\ solver.class = "NoneType"
            /\ solver.class = "FermiSolver" =>
                  /\ solver.result = "ok"
                  /\ solver.backend \in {"doped", "py-sc-fermi"}
                  /\ solver.args.backend = "default" => solver.backend = "doped"

\* A construction without any DOS was refused, the backend being a valid one.
C15_Witness ==
    /\ solver.call = "__init__"
    /\ solver.result = NoBulkDOS
    /\ solver.args.backend = "doped"
    /\ solver.class = "NoneType"

\* A call of scan_temperature has just been made.
Scanned == ops' = ops + 1 /\ solver'.call = "scan_temperature"

\* C16: scan_temperature with both temperature_range and
\* annealing_temperature_range raises the ValueError and solves nothing; with
\* one of them, the result has a row for every requested temperature, or for
\* every requested annealing and every requested quenched temperature.
C16_ScanTemperature ==
    [][Scanned =>
         LET t == solver'.args[1]
             a == solver'.args[2]
             q == solver'.args[3]
             rows == solver'.rows
         IN  /\ (t # <<>> /\ a # <<>>) =>
                   /\ solver'.result = BothRangesSet
                   /\ rows = <<>>
                   /\ solver'.solved = solver.solved
             /\ (t # <<>> /\ a = <<>>) =>
                   /\ solver'.result = "ok"
                   /\ \A i \in DOMAIN t : \E r \in DOMAIN rows : rows[r].temperature = t[i]
             /\ (t = <<>> /\ a # <<>>) =>
                   /\ solver'.result = "ok"
                   /\ \A i \in DOMAIN a : \E r \in DOMAIN rows : rows[r].annealing = a[i]
                   /\ \A j \in DOMAIN q : \E r \in DOMAIN rows : rows[r].quenched = q[j]]_vars

\* A scan given both ranges was refused.
C16_Witness ==
    /\ solver.call = "scan_temperature"
    /\ solver.result = BothRangesSet
    /\ Len(solver.args[1]) = 2
    /\ Len(solver.args[2]) = 2
    /\ solver.solved = 0

\* Fractions compared by cross-multiplication.
SameFraction(x, y) == x.num * y.den = y.num * x.den

\* C17: interpolation with n_points >= 2 gives exactly n_points points, the
\* first the start point and the last the end point, consecutive points
\* (end - start) / (n_points - 1) apart for every element; for odd n_points the
\* middle point is the mean of the ends; interpolate_chempots has a row for
\* each point, no two alike when the ends differ.
C17_Interpolation ==
    (solver.call = "interpolate_chempots" /\ solver.result = "ok") =>
        LET n     == solver.args.n_points
            start == solver.args.chempot_start
            end   == solver.args.chempot_end
            rows  == solver.rows
        IN  /\ Len(rows) = n
            /\ \A i \in 1..n, el \in Elements : rows[i][el].den > 0
            /\ \A el \in Elements :
                  /\ rows[1][el].num = start[el] * rows[1][el].den
                  /\ rows[n][el].num = end[el] * rows[n][el].den
                  /\ \A i \in 1..(n - 1) :
                        (rows[i + 1][el].num * rows[i][el].den
                            - rows[i][el].num * rows[i + 1][el].den) * (n - 1)
                        = (end[el] - start[el]) * rows[i][el].den * rows[i + 1][el].den
                  /\ n % 2 = 1 =>
                        2 * rows[(n + 1) \div 2][el].num
                        = (start[el] + end[el]) * rows[(n + 1) \div 2][el].den
            /\ start # end =>
                  \A i, j \in 1..n :
                      i # j => \E el \in Elements : ~SameFraction(rows[i][el], rows[j][el])

\* Five points were interpolated between two different end points.
C17_Witness ==
    /\ solver.call = "interpolate_chempots"
    /\ solver.result = "ok"
    /\ solver.args.n_points = 5
    /\ solver.args.chempot_start # solver.args.chempot_end
    /\ Len(solver.rows) = 5

\* C18: scan_chemical_potential_grid raises the one-limit ValueError whenever
\* fewer than two limits are available: with no chempots given and none in the
\* thermodynamics record, and with a single flat per-element dict given.
C18_GridNeedsTwoLimits ==
    solver.call = "scan_chemical_potential_grid" =>
        /\ (solver.args.form = "None" /\ solver.limits = 0) => solver.result = OneLimitOnly
        /\ solver.args.form = "flat" => solver.result = OneLimitOnly
        /\ (IF solver.args.form = "None" THEN solver.limits ELSE solver.args.limits) < 2
              => (solver.result = OneLimitOnly /\ solver.rows = <<>>)

\* A flat dict was refused by a solver whose record has two limits.
C18_Witness ==
    /\ solver.call = "scan_chemical_potential_grid"
    /\ solver.args.form = "flat"
    /\ solver.limits = 2
    /\ solver.result = OneLimitOnly

\* A call of _check_required_backend_and_error has just been made.
Checked == ops' = ops + 1 /\ solver'.call = "_check_required_backend_and_error"

\* C19: _check_required_backend_and_error("py-sc-fermi") raises the
\* RuntimeError when the backend is "doped" or _DOS is not initialised; the
\* check raises nothing when the backend is the required one and its state is
\* initialised; a solver's backend never changes.
C19_RequiredBackend ==
    [][/\ Checked =>
             LET required == solver'.args[1]
             IN  /\ (required = "py-sc-fermi"
                        /\ (solver.backend = "doped" \/ ~solver.dos)) =>
                       solver'.result
                           = "RuntimeError: only supported for the py-sc-fermi"
                 /\ (required = solver.backend
                        /\ (required = "py-sc-fermi" => solver.dos)) =>
                       solver'.result = "ok"
       /\ solver.class = "FermiSolver" =>
             /\ solver'.class = "FermiSolver"
             /\ solver'.backend = solver.backend]_vars

\* The check was refused on a py-sc-fermi solver whose _DOS had been set to None.
C19_Witness ==
    /\ solver.call = "_check_required_backend_and_error"
    /\ solver.backend = "py-sc-fermi"
    /\ ~solver.dos
    /\ solver.args = <<"py-sc-fermi">>
    /\ solver.result = "RuntimeError: only supported for the py-sc-fermi"

\* The rename loop of a second placement has just ended: rename_items is the
\* mapping as it was when the loop began.
RenameDone ==
    /\ pc = "store"
    /\ charge_i = 1
    /\ EndsWith(defect_name_wout_charge, "b")

\* The bare base name of the placement that set off the rename.
RenamedBase == SubSeq(defect_name_wout_charge, 1, Len(defect_name_wout_charge) - 1)

\* C20: when a second placement of a base name is found, every entry stored
\* under <base>_<q> is afterwards stored under <base>a_<q>, q its own charge,
\* the same entry with its name set to the new key, and the old key is gone;
\* every entry of another base name, one that has <base> as a prefix
\* included, is stored as before; no other key appears.
C20_RetroactiveRename ==
    RenameDone =>
        /\ \A i \in DOMAIN rename_items :
              LET k == rename_items[i].key
                  e == rename_items[i].val
                  renamed == RenamedBase \o <<"a", "_">> \o FormatCharge(e.charge_state)
              IN  IF k = RenamedBase \o <<"_">> \o FormatCharge(e.charge_state)
                  THEN /\ ~DictHas(defect_entries, k)
                       /\ DictHas(defect_entries, renamed)
                       /\ DictGet(defect_entries, renamed) = [e EXCEPT !.name = renamed]
                  ELSE /\ DictHas(defect_entries, k)
                       /\ DictGet(defect_entries, k) = e
        /\ Len(defect_entries) = Len(rename_items)

\* A rename has ended that moved entries of the base while the mapping held
\* entries of a base which has the renamed one as a prefix.
C20_Witness ==
    /\ RenameDone
    /\ \E i \in DOMAIN rename_items :
          StartsWith(rename_items[i].key, RenamedBase \o <<"_">>)
    /\ \E i \in DOMAIN rename_items :
          /\ StartsWith(rename_items[i].key, RenamedBase)
          /\ ~StartsWith(rename_items[i].key, RenamedBase \o <<"_">>)
          /\ DictHas(defect_entries, rename_items[i].key)

\* The entry e is the value of key k of defect_entries, whatever its name is.
ReachableUnder(k, e) ==
    /\ DictHas(defect_entries, k)
    /\ [DictGet(defect_entries, k) EXCEPT !.name = <<>>] = [e EXCEPT !.name = <<>>]

\* C21: at every step of the rename loop, each entry the loop renames is in
\* defect_entries under its old key or under its new key; between the
\* insertion and the deletion it is under both.
C21_NeverOrphaned ==
    pc \in {"rename", "rename_del"} =>
        \A i \in DOMAIN rename_items :
            LET k == rename_items[i].key
                e == rename_items[i].val
            IN  StartsWith(k, RenamePrefix) =>
                   /\ \/ ReachableUnder(k, e)
                      \/ ReachableUnder(RenamedName(e.charge_state), e)
                   /\ (pc = "rename_del" /\ i = rename_i) =>
                          /\ ReachableUnder(k, e)
                          /\ ReachableUnder(RenamedName(e.charge_state), e)

\* The loop stands between an insertion and a deletion, one entry of the base
\* already moved and one still to move.
C21_Witness ==
    /\ pc = "rename_del"
    /\ \E i, j \in DOMAIN rename_items :
          /\ i < rename_i
          /\ rename_i < j
          /\ StartsWith(rename_items[i].key, RenamePrefix)
          /\ StartsWith(rename_items[j].key, RenamePrefix)
          /\ ~DictHas(defect_entries, rename_items[i].key)
          /\ DictHas(defect_entries, rename_items[j].key)

\* The one dummy site of the supercell of the last call.
TheDummy == CHOOSE i \in DummyIndices(last.supercell) : TRUE

\* C22: given a supercell with exactly one dummy site,
\* get_defect_entry_from_defect returns an entry whose structure is the
\* supercell without that site, every other site as it was, whose defect
\* coordinates are the dummy site's, whose energy is 0, and whose charge state
\* and defect are the ones passed in; the caller's supercell is as it was, so
\* a second call with the same supercell returns an entry of the same
\* structure.
C22_EntryFromSupercell ==
    (last.op = "get_defect_entry_from_defect"
        /\ Cardinality(DummyIndices(last.supercell)) = 1) =>
        LET entry == last.value
            given == last.supercell.sites
            sites == entry.sc_entry.structure.sites
        IN  /\ entry.class = "DefectEntry"
            /\ Len(sites) = Len(given) - 1
            /\ \A j \in DOMAIN sites :
                  sites[j] = IF j < TheDummy THEN given[j] ELSE given[j + 1]
            /\ entry.sc_entry.structure.lattice = last.supercell.lattice
            /\ entry.sc_defect_frac_coords = given[TheDummy].frac_coords
            /\ entry.sc_entry.energy = 0
            /\ entry.charge_state = last.charge_state
            /\ entry.defect = last.defect
            /\ last.supercell_after = last.supercell
            /\ last.reused =>
                  /\ last.previous.class = "DefectEntry"
                  /\ last.previous.sc_entry.structure = entry.sc_entry.structure
                  /\ last.previous.defect = entry.defect

\* A second charge state's entry was made from the supercell of the first.
C22_Witness ==
    /\ last.op = "get_defect_entry_from_defect"
    /\ Cardinality(DummyIndices(last.supercell)) = 1
    /\ last.reused
    /\ last.value.class = "DefectEntry"
    /\ last.previous.class = "DefectEntry"
    /\ last.previous.charge_state # last.value.charge_state
    /\ Len(last.value.sc_entry.structure.sites) > 1

\* The base names that have an entry, and those of them without neutral entry.
RemainingBases == {RSplitFirst(defect_entries[i].key) : i \in DOMAIN defect_entries}

BasesWithoutNeutral ==
    {base \in RemainingBases : ~DictHas(defect_entries, base \o <<"_", "0">>)}

\* C27: with no kind list empty, the summary raises KeyError when a base name
\* that still has an entry has no entry <base>_0, and returns its tables, a
\* row for every remaining base name, when every one of them has it.
C27_SummaryNeedsNeutral ==
    (last.op = "__repr__" /\ \A k \in DOMAIN defects : defects[k].val # <<>>) =>
        /\ BasesWithoutNeutral # {} => last.result = "KeyError"
        /\ BasesWithoutNeutral = {} =>
              /\ last.result = "str"
              /\ \A base \in RemainingBases :
                    \E k \in DOMAIN last.returned.tables :
                       \E row \in last.returned.tables[k] : row.name = base

\* The steps of __init__ in the order of lines 165-367.
StepOrder ==
    <<"primitive", "vacancies", "antisites", "substitutions",
      "remove_oxidation_states", "interstitials", "supercell_matrix", "entries",
      "summary">>

StepsBegun == [i \in DOMAIN steps |-> steps[i].step]

\* C23: the steps of construction begin in the one order primitive reduction,
\* vacancies, antisites, substitutions, removal of oxidation states,
\* interstitials, supercell matrix, entries, summary; the interstitial step
\* is given a structure without oxidation states, the removal coming just
\* before it; and once a step has raised nothing of the generator changes.
C23_StepOrder ==
    [][/\ Len(steps') <= Len(StepOrder)
       /\ StepsBegun' = SubSeq(StepOrder, 1, Len(steps'))
       /\ \A i \in DOMAIN steps' :
             steps'[i].step = "interstitials" => ~steps'[i].oxidation_states
       /\ pc' = "raised" => pc # "raised" /\ Len(steps') >= Len(steps)
       /\ pc = "raised" => UNCHANGED vars]_vars

\* A construction went through every step, and the vacancy and antisite
\* generators had put oxidation states on the structure before the removal.
C23_Witness ==
    /\ pc = "ready"
    /\ StepsBegun = StepOrder
    /\ steps[5].oxidation_states
    /\ ~steps[6].oxidation_states

\* The kind lists without a Defect.
EmptyKinds == {k \in DOMAIN defects : defects[k].val = <<>>}

\* C28: when the summary of line 367 is reached the three kind lists exist,
\* and if one of them is empty the summary raises IndexError: construction
\* ends there, with the entries of the other kinds built and left as they are.
C28_EmptyKindRaises ==
    [][pc = "summary" =>
          /\ {defects[k].key : k \in DOMAIN defects} =
                {"vacancies", "substitutions", "interstitials"}
          /\ EmptyKinds # {} =>
                /\ pc' = "raised"
                /\ last'.op = "__init__"
                /\ last'.result = "IndexError"
                /\ UNCHANGED fields]_vars

\* A host without antisites or substitutions: its vacancies' and
\* interstitials' entries were built, and the summary raised IndexError.
C28_Witness ==
    /\ pc = "raised"
    /\ last.result = "IndexError"
    /\ StepsBegun = StepOrder
    /\ DictGet(defects, "substitutions") = <<>>
    /\ DictGet(defects, "vacancies") # <<>>
    /\ DictGet(defects, "interstitials") # <<>>
    /\ Len(defect_entries) >= 2

\* The extrinsic elements `extrinsic` names for the host element of site j.
NamedFor(j) ==
    IF extrinsic.type \in {"str", "list"} THEN extrinsic.elements
    ELSE IF \E i \in DOMAIN extrinsic.items : extrinsic.items[i].key = SpeciesAt(j)
    THEN (CHOOSE item \in {extrinsic.items[i] : i \in DOMAIN extrinsic.items} :
             item.key = SpeciesAt(j)).val
    ELSE <<>>

\* Every extrinsic element `extrinsic` names.
NamedElements ==
    IF extrinsic.type \in {"str", "list"}
    THEN {extrinsic.elements[i] : i \in DOMAIN extrinsic.elements}
    ELSE UNION {{item.val[i] : i \in DOMAIN item.val} :
                   item \in {extrinsic.items[i] : i \in DOMAIN extrinsic.items}}

NamedSubstitutions(j) == [i \in DOMAIN NamedFor(j) |-> Substitution(NamedFor(j)[i], j)]

\* C24: for a string, list or dict `extrinsic` the substitution step leaves
\* the antisites where they are in defects['substitutions'] and appends, for
\* host sites in order, one substitution per element named for the site's
\* element: the string's element or the list's elements at every site, a
\* dict's value at the sites of its keys only.  The interstitial generator is
\* asked for the host's elements and every element named, in all three forms.
C24_ExtrinsicTranslation ==
    [][extrinsic.type \in {"str", "list", "dict"} =>
          /\ (pc = "substitutions" /\ pc' = "interstitials") =>
                LET old == DictGet(defects, "substitutions")
                    new == DictGet(defects', "substitutions")
                IN  /\ Len(new) >= Len(old)
                    /\ SubSeq(new, 1, Len(old)) = old
                    /\ \E sites \in SUBSET HostSiteIndices :
                          SubSeq(new, Len(old) + 1, Len(new)) =
                             (IF 0 \in sites THEN NamedSubstitutions(0) ELSE <<>>)
                                \o (IF 1 \in sites THEN NamedSubstitutions(1)
                                    ELSE <<>>)
          /\ \A i \in DOMAIN steps' :
                steps'[i].step = "interstitials" =>
                   SpeciesAsked(steps'[i].call) =
                      {HostElements[h] : h \in DOMAIN HostElements}
                         \cup NamedElements]_vars

\* A dict naming E for the host element A only: the one substitution E_A
\* follows the antisite in defects['substitutions'], none is made on B, and
\* an interstitial of E was found.
C24_Witness ==
    /\ extrinsic = Extrinsic("dict", <<>>, <<[key |-> "A", val |-> <<"E">>]>>)
    /\ pc \notin {"raised", "interstitials"}
    /\ DictHas(defects, "interstitials")
    /\ Len(DictGet(defects, "substitutions")) = 2
    /\ ~IsExtrinsic(DictGet(defects, "substitutions")[1])
    /\ DictGet(defects, "substitutions")[2] = Substitution("E", 0)
    /\ \E i \in DOMAIN DictGet(defects, "interstitials") :
          DictGet(defects, "interstitials")[i].species = "E"

\* Every key of defect_entries is the name of its entry.
KeysAreNames ==
    \A i \in DOMAIN defect_entries : defect_entries[i].key = defect_entries[i].val.name

\* C25: an accepted assignment stores the value as it is, name included, under
\* the key as it is given, whatever the value's name and charge state are: the
\* same value with any other charge state passes the checks too.  The keys
\* are the entries' names when construction ends.
C25_StoredVerbatim ==
    [][/\ (Assigned /\ last'.result = "ok") =>
             /\ DictHas(defect_entries', last'.key)
             /\ DictGet(defect_entries', last'.key) = last'.value
             /\ \A c \in -MaxOxi..MaxOxi :
                   SetItemResult([last'.value EXCEPT !.charge_state = c]) = "ok"
       /\ Constructed' => KeysAreNames']_vars

\* An entry of charge +1 and of another name was stored under a key that ends
\* in _0: the keys are no longer the names.
C25_Witness ==
    /\ last.op = "set" /\ last.result = "ok"
    /\ last.key = FreshKey
    /\ last.value.charge_state = 1
    /\ last.value.name # last.key
    /\ DictGet(defect_entries, last.key) = last.value
    /\ ~KeysAreNames

\* A method of defect_entries has just been called through the generator.
DelegatedCall == ops' = ops + 1 /\ last'.op = "__getattr__"

\* C26: update, setdefault, pop, popitem and clear called on the generator
\* act on defect_entries as on a plain dict and leave `defects` alone:
\* update stores its value under its key and setdefault does for an absent
\* key, whether or not assignment would take the value; pop removes the
\* key's entry, popitem the last one, clear all of them.
C26_DelegatedMutation ==
    [][DelegatedCall =>
          /\ defects' = defects
          /\ last'.attr \in DictAttributes => last'.result \in {"ok", "KeyError"}
          /\ (last'.attr = "update"
                \/ (last'.attr = "setdefault" /\ ~DictHas(defect_entries, last'.key))) =>
                /\ DictGet(defect_entries', last'.key) = last'.value
                /\ DictKeys(defect_entries') = DictKeys(defect_entries) \cup {last'.key}
          /\ (last'.attr = "setdefault" /\ DictHas(defect_entries, last'.key)) =>
                defect_entries' = defect_entries
          /\ (last'.attr = "pop" /\ last'.result = "ok") =>
                defect_entries' = DictDel(defect_entries, last'.key)
          /\ (last'.attr = "popitem" /\ last'.result = "ok") =>
                defect_entries' = SubSeq(defect_entries, 1, Len(defect_entries) - 1)
          /\ last'.attr = "clear" => defect_entries' = <<>>
          /\ last'.result # "ok" => defect_entries' = defect_entries]_vars

\* update stored, under a new key, an entry of another host's defect, which
\* assignment rejects; the defect is in no list of `defects`.
C26_Witness ==
    /\ last.op = "__getattr__" /\ last.attr = "update" /\ last.result = "ok"
    /\ SetItemResult(last.value) = "ValueError:structure"
    /\ DictHas(defect_entries, last.key)
    /\ DictGet(defect_entries, last.key) = last.value
    /\ ~DictHas(before[1], last.key)
    /\ ~InList(Flatten(defects), last.value.defect)

\* The interstitial calls construction has made.
InterstitialCalls ==
    {steps[i].call : i \in {j \in DOMAIN steps : steps[j].step = "interstitials"}}

NoRepeats(l) == \A i, j \in DOMAIN l : l[i] = l[j] => i = j

\* C30: the Voronoi generator's insert_species is the host's elements followed
\* by the extrinsic elements: for a string or a list these are the elements as
\* given, repeats and host elements included, so that an element is in the
\* list once per occurrence; for a dict they are the values' elements, each
\* once.  The insertions of the other generator have every host element and
\* every extrinsic element for a key once, each with the coordinates given.
C30_InsertedElements ==
    \A call \in InterstitialCalls :
       LET given == SubSeq(call.insert_species, Len(HostElements) + 1,
                           Len(call.insert_species))
       IN  /\ call.generator = "VoronoiInterstitialGenerator" =>
                /\ SubSeq(call.insert_species, 1, Len(HostElements)) = HostElements
                /\ extrinsic.type \in {"str", "list"} => given = extrinsic.elements
                /\ extrinsic.type = "dict" =>
                      /\ NoRepeats(given)
                      /\ {given[i] : i \in DOMAIN given} = NamedElements
                /\ extrinsic.type \notin {"str", "list", "dict"} => given = <<>>
                /\ extrinsic.type \in {"str", "list"} =>
                      \A x \in SpeciesAsked(call) :
                         Occurrences(call.insert_species, x) =
                            Occurrences(HostElements, x)
                               + Occurrences(extrinsic.elements, x)
           /\ call.generator = "InterstitialGenerator" =>
                /\ NoRepeats([i \in DOMAIN call.insertions |-> call.insertions[i].key])
                /\ extrinsic.type \in {"str", "list", "dict"} =>
                      DictKeys(call.insertions) =
                         {HostElements[h] : h \in DOMAIN HostElements}
                            \cup NamedElements
                /\ \A i \in DOMAIN call.insertions :
                      call.insertions[i].val \in InterstitialCoords \ {<<>>}

\* The list ["E", "E"] went to the Voronoi generator with E twice, and two
\* interstitials of E were made.
C30_Witness ==
    /\ extrinsic = Extrinsic("list", <<"E", "E">>, <<>>)
    /\ pc \notin {"raised", "interstitials"}
    /\ \E call \in InterstitialCalls :
          /\ call.generator = "VoronoiInterstitialGenerator"
          /\ call.insert_species = <<"A", "B", "E", "E">>
    /\ DictHas(defects, "interstitials")
    /\ \E i \in DOMAIN DictGet(defects, "interstitials") :
          DictGet(defects, "interstitials")[i].species = "E"

\* The defects before the current one in its kind list that have its base name.
SameBaseBefore ==
    {j \in 1..(defect_i - 1) :
        _get_defect_name_from_obj(defects[kind_i].val[j]) =
           _get_defect_name_from_obj(CurrentDefect)}

\* The defects of the kinds before the current one that have its base name.
SameBaseOtherKind ==
    {d \in {Flatten(SubSeq(defects, 1, kind_i - 1))[i] :
               i \in DOMAIN Flatten(SubSeq(defects, 1, kind_i - 1))} :
        _get_defect_name_from_obj(d) = _get_defect_name_from_obj(CurrentDefect)}

\* C29: the registry of base names is empty when a kind's list is begun, so a
\* defect is named with a letter exactly when a defect before it in the same
\* list has its base name, antisites and extrinsic substitutions being one
\* list; a defect whose base name only a defect of another kind has is named
\* without a letter, and its entries take the keys the other's entries had.
C29_RegistryPerKind ==
    [][/\ (pc = "defect" /\ kind_i' # kind_i) => defect_naming_dict' = {}
       /\ (pc = "charge" /\ defect_name_wout_charge = <<>>
             /\ defect_name_wout_charge' # <<>>) =>
             /\ SameBaseBefore = {} =>
                   defect_name_wout_charge' = _get_defect_name_from_obj(CurrentDefect)
             /\ SameBaseBefore # {} =>
                   /\ Len(defect_name_wout_charge') =
                         Len(_get_defect_name_from_obj(CurrentDefect)) + 1
                   /\ defect_name_wout_charge'[Len(defect_name_wout_charge')]
                         \in {Letters[i] : i \in 2..Len(Letters)}
       /\ (pc = "store" /\ pc' = "charge") =>
             LET key == StoredName(defect_name_wout_charge, charge)
             IN  /\ DictGet(defect_entries', key).defect = CurrentDefect
                 /\ DictHas(defect_entries, key) =>
                       Len(defect_entries') = Len(defect_entries)]_vars

\* The substitution of an element written v on A has the base name of the
\* vacancy of A: it was named without a letter, and the key v_A_s0_0 that held
\* the vacancy's entry holds the substitution's.
C29_Witness ==
    /\ pc = "charge"
    /\ kind_i = 2
    /\ CurrentDefect = Substitution("v", 0)
    /\ SameBaseOtherKind = {Vacancy(0)}
    /\ SameBaseBefore = {}
    /\ defect_name_wout_charge = _get_defect_name_from_obj(Vacancy(0))
    /\ DictGet(defect_entries, StoredName(defect_name_wout_charge, 0)).defect
          = Substitution("v", 0)
    /\ \A i \in DOMAIN defect_entries :
          defect_entries[i].key = StoredName(defect_name_wout_charge, 0) =>
             defect_entries[i].val.defect # Vacancy(0)

====
